---- MODULE Spec2Model ----
(***************************************************************************)
(* A model of the wavetable editor frontend (Jstxyn/Wavetable_Site):       *)
(*   - EffectManager (frontend/src/config.ts, first class, lines 67-408):  *)
(*     parameter clamping, bypass set, debounce timers, the compute cache   *)
(*     and the asynchronous applyEffects pipeline;                          *)
(*   - WavetableEditor.handleEffectChange, which drives applyEffects and    *)
(*     rebuilds the frames;                                                 *)
(*   - the formant preview (previewFormantEffect / updateVisualPreview).    *)
(*                                                                         *)
(* Numbers.  An effect parameter is a JavaScript number, a record          *)
(* [kind, val]: a finite number is [kind |-> "num", val |-> n] with n      *)
(* counted in thousandths (0.5 is 500), and NaN, Infinity and -Infinity    *)
(* are kinds of their own.  Waveform samples are integers counted in 64ths *)
(* (1.0 is One = 64; a JSON body carries finite numbers only); the formant *)
(* strength is counted in quarters.  With samples that are multiples of    *)
(* 1/4, every product of the formant preview is a whole number of 64ths,   *)
(* so the preview is computed exactly.                                     *)
(*                                                                         *)
(* Registry.  The constructor registers one effect, chaosFold; the loop of *)
(* applyEffects is written for any registry.  So that the order of stages  *)
(* and the hand-over of one stage's output to the next can be observed,    *)
(* the model's registry holds a second entry built from the same parameter *)
(* list (EffectIds).                                                       *)
(***************************************************************************)
EXTENDS Integers, Sequences, FiniteSets, TLC

VARIABLES
    effects,          \* EffectManager.effects: the registry with the parameter values
    bypassedEffects,  \* EffectManager.bypassedEffects: Set<string>
    computeCache,     \* EffectManager.computeCache: Map<string, {params, result}>
    updateTimers,     \* EffectManager.updateTimers: the effect ids with a pending timer
    call,             \* the activation of applyEffects (locals, position, outcome)
    requests,         \* the requests the current applyEffects call sent, in order
    cacheInput,       \* history: the stage input each cache entry was computed from
    prev,             \* history: the previous applyEffects call
    quiet,            \* history: no parameter or bypass change since the current
                      \* applyEffects call started
    lastOp,           \* history: the last EffectManager operation that ran
    nCalls,           \* number of applyEffects calls started
    nUpdates,         \* number of updateEffectParameter calls made
    waveformData,     \* WavetableEditor: useState waveformData (NoData for null)
    frames,           \* WavetableEditor: useState frames
    error,            \* WavetableEditor: useState error
    isEffectProcessing, \* WavetableEditor: useState isEffectProcessing
    editorPc,         \* WavetableEditor: where its running handlers stand
    lastChange,       \* history: the last handleEffectChange (outcome, frames before)
    originalWaveformRef, \* WavetableEditor: useRef originalWaveformRef
    harmonicStrength, \* WavetableEditor: useState harmonicStrength (quarters)
    isDraggingFormant, \* WavetableEditor: useState isDraggingFormant
    harmonicTimeoutRef, \* WavetableEditor: the pending timer of harmonicTimeoutRef
    lastEnhanceTime,  \* WavetableEditor: useRef lastEnhanceTime
    enhanceRequests,  \* the enhance requests in flight
    previewed,        \* history: waveformData was last written by updateVisualPreview
    equation,         \* WavetableEditor.tsx: useState equation
    chaosParams,      \* WavetableEditor.tsx: useState chaosParams
    debouncedParams,  \* WavetableEditor.tsx: useState debouncedParams
    isChaosEnabled,   \* WavetableEditor.tsx: useState isChaosEnabled
    isProcessing,     \* WavetableEditor.tsx: useState isProcessing
    chaosTimer,       \* WavetableEditor.tsx: the 100 ms timer of the chaosParams effect
    chaosRequests,    \* the chaos_fold requests in flight
    generateRequests, \* the generation requests in flight
    generated,        \* history: the frames of the last generation, as returned
    lastRequest,      \* history: the last effect request built from originalWaveformRef
    lastChaos,        \* history: the last applyChaosFolder call
    lastGenerate,     \* history: the last generation that failed
    disabled,         \* useSliderInteraction: the disabled option of the render
    isDragging,       \* useSliderInteraction: useState isDragging
    timeoutRef,       \* useSliderInteraction: useRef timeoutRef (a timer id or null)
    valueRef,         \* useSliderInteraction: useRef valueRef
    sliderTimers,     \* the pending window.setTimeout timers of the hook
    onChange,         \* the values the last step called the onChange option with
    sinceChange,      \* time since the last handleChange the hook accepted (ms)
    lastPassed,       \* history: the last value handleChange accepted
    lastSlider,       \* history: the last step of the hook
    series,           \* history: the current series of handleChange calls
    pendingTimers,    \* the pending window.setTimeout timers of the EffectManager
    dispatched,       \* the events the last step dispatched on window
    bursts,           \* history: per effect, the current burst of parameter updates
    isDraggingOver,   \* DragDropUpload: useState isDragging
    uploadError,      \* DragDropUpload: useState error
    dragCounter,      \* DragDropUpload: useRef dragCounter
    onFileUpload,     \* the files the last step called the onFileUpload prop with
    lastDrop,         \* history: the files and maxSize of the last drop or selection
    enhanceOrigin,    \* history: what issued the enhance request in flight
    lastEnhance,      \* history: the last enhance response that arrived
    loading,          \* WavetableEditor (image import): useState loading
    selectedFileName, \* WavetableEditor (image import): useState selectedFileName
    imports,          \* the image imports in flight, each reading or fetching
    tolerantCall,     \* the activation of the applyEffects that skips failed stages
    tolerantRequests  \* the requests that activation sent, in order

emVars == <<effects, bypassedEffects, computeCache, updateTimers, call, requests,
            cacheInput, prev, quiet, lastOp, nCalls, nUpdates>>

cacheHist == <<cacheInput, lastOp>>
repeatHist == <<prev, quiet>>

editorVars == <<waveformData, frames, error, isEffectProcessing, editorPc,
                lastChange>>

previewVars == <<originalWaveformRef, harmonicStrength, isDraggingFormant,
                 harmonicTimeoutRef, lastEnhanceTime, enhanceRequests, previewed>>

chaosVars == <<equation, chaosParams, debouncedParams, isChaosEnabled,
               isProcessing, chaosTimer, chaosRequests, generateRequests,
               generated, lastRequest, lastChaos, lastGenerate>>

sliderVars == <<disabled, isDragging, timeoutRef, valueRef, sliderTimers,
                onChange, sinceChange, lastPassed, lastSlider, series>>

debounceVars == <<pendingTimers, dispatched, bursts>>

uploadVars == <<isDraggingOver, uploadError, dragCounter, onFileUpload, lastDrop>>

dragEndHist == <<enhanceOrigin, lastEnhance>>

importVars == <<loading, selectedFileName, imports>>

tolerantVars == <<tolerantCall, tolerantRequests>>

laterVars == <<dragEndHist, importVars, tolerantVars>>

componentVars == <<chaosVars, sliderVars, debounceVars, uploadVars, laterVars>>

vars == <<effects, bypassedEffects, computeCache, updateTimers, call, requests,
          cacheInput, prev, quiet, lastOp, nCalls, nUpdates,
          waveformData, frames, error, isEffectProcessing, editorPc, lastChange,
          originalWaveformRef, harmonicStrength, isDraggingFormant,
          harmonicTimeoutRef, lastEnhanceTime, enhanceRequests, previewed,
          componentVars>>

----------------------------------------------------------------------------
(* Bounds of the model *)

MaxEnhance == 1    \* enhance requests in flight at a time
MaxGenerate == 1   \* generation requests in flight at a time (WavetableEditor.tsx)
MaxChaos == 1      \* chaos_fold requests in flight at a time
MaxFrames == 2     \* frames of a wavetable (WavetableEditor.tsx)
MaxTimers == 2     \* pending timers of the slider hook
MaxPending == 3    \* pending debounce timers of the EffectManager
MaxDragDepth == 2  \* nested dragenter events of DragDropUpload
MaxImports == 2    \* image imports in flight at a time
MaxCalls == 2      \* applyEffects calls per behaviour
MaxUpdates == 2    \* updateEffectParameter calls per behaviour (SpecParams)

----------------------------------------------------------------------------
(* JavaScript numbers *)

Num(n) == [kind |-> "num", val |-> n]
NaN == [kind |-> "NaN", val |-> 0]
PosInfinity == [kind |-> "Infinity", val |-> 0]
NegInfinity == [kind |-> "-Infinity", val |-> 0]

\* a <= b on JavaScript numbers: false as soon as one side is NaN
NumLeq(a, b) ==
    /\ a.kind # "NaN"
    /\ b.kind # "NaN"
    /\ \/ a.kind = "-Infinity"
       \/ b.kind = "Infinity"
       \/ a.kind = "num" /\ b.kind = "num" /\ a.val <= b.val

\* Math.min / Math.max: NaN if either argument is NaN
MathMin(a, b) ==
    IF a.kind = "NaN" \/ b.kind = "NaN" THEN NaN
    ELSE IF NumLeq(a, b) THEN a ELSE b

MathMax(a, b) ==
    IF a.kind = "NaN" \/ b.kind = "NaN" THEN NaN
    ELSE IF NumLeq(a, b) THEN b ELSE a

----------------------------------------------------------------------------
(* The registry built by the constructor *)

EffectIds == <<"chaosFold", "chaosFold2">>

\* the parameter list of chaosFold: id, value, min, max (thousandths)
Param(id, value, min, max) ==
    [id |-> id, value |-> Num(value), min |-> Num(min), max |-> Num(max)]

ChaosFoldParameters ==
    << Param("beta", 500, 0, 2000),
       Param("timeStep", 10, 1, 100),
       Param("mix", 1000, 0, 1000),
       Param("sigma", 10000, 0, 20000),
       Param("rho", 28000, 0, 50000),
       Param("foldSymmetry", 500, 0, 1000),
       Param("complexity", 500, 0, 1000),
       Param("lfoAmount", 0, 0, 1000) >>

InitialEffects ==
    [i \in 1..Len(EffectIds) |->
        [id |-> EffectIds[i], parameters |-> ChaosFoldParameters]]

\* Array.prototype.find on the registry / on a parameter list: the first
\* index whose id matches, 0 for undefined
FindIndex(seq, id) ==
    IF \E i \in 1..Len(seq) : seq[i].id = id
    THEN CHOOSE i \in 1..Len(seq) :
            /\ seq[i].id = id
            /\ \A j \in 1..(i - 1) : seq[j].id # id
    ELSE 0

----------------------------------------------------------------------------
(* Arrays and JavaScript values crossing the API *)

\* 1.0 as a sample, in 64ths
One == 4 * 4 * 4

\* the waveform arrays the callers and the backend draw from: two of the same
\* length, one longer, with samples inside and outside [-1, 1]
Waveforms == {<<One>>, <<-2 * One>>, <<One, -2 * One>>}

\* a value handed to applyEffects or found in a response body's waveform field
Arr(w) == [isArray |-> TRUE, items |-> w]
NotAnArray == [isArray |-> FALSE, items |-> <<>>]

----------------------------------------------------------------------------
(* The compute cache: a Map from strings to {params, result} *)

\* A Map key is a string.  The strings the manager uses are an effect id, or
\* an effect id followed by ":" and a JSON text; a string is modelled by these
\* parts, so two keys are the same string exactly when the parts agree (no
\* effect id contains ":").
StringKey(effectId) == [id |-> effectId, sep |-> "", json |-> <<>>]

\* JSON.stringify of a number: NaN and the infinities are written as null
JSONNumber(v) == IF v.kind = "num" THEN v ELSE [kind |-> "null", val |-> 0]

\* JSON.stringify of a Record<string, number>: the members in insertion order
JSONstringify(parameters) ==
    [i \in 1..Len(parameters) |->
        <<parameters[i].id, JSONNumber(parameters[i].value)>>]

getCacheKey(effectId, parameters) ==
    [id |-> effectId, sep |-> ":", json |-> JSONstringify(parameters)]

MapDelete(map, key) == [k \in (DOMAIN map) \ {key} |-> map[k]]

MapSet(map, key, value) ==
    [k \in (DOMAIN map) \cup {key} |-> IF k = key THEN value ELSE map[k]]

EmptyMap == [k \in {} |-> 0]

clearComputeCache(cache, effectId) == MapDelete(cache, StringKey(effectId))

isEffectBypassed(effectId) == effectId \in bypassedEffects

\* effect.parameters.reduce(...): the record of current values, in list order
\* getEffects() answering every effect as not bypassed (the registry's own
\* bypassed field, which toggleBypass never writes)
getEffectsStale ==
    [i \in 1..Len(effects) |->
        [id |-> effects[i].id, parameters |-> effects[i].parameters,
         bypassed |-> FALSE]]

\* getEffects(): each effect of the registry with its bypassed flag
getEffects ==
    [i \in 1..Len(effects) |->
        [id |-> effects[i].id, parameters |-> effects[i].parameters,
         bypassed |-> isEffectBypassed(effects[i].id)]]

Parameters(effect) ==
    [i \in 1..Len(effect.parameters) |->
        [id |-> effect.parameters[i].id, value |-> effect.parameters[i].value]]

----------------------------------------------------------------------------
(* updateEffectParameter, debounceParameterUpdate, toggleBypass *)

\* lastOp after any operation but updateEffectParameter
OtherOp == [op |-> "other", effectId |-> "", found |-> FALSE]

\* the clamp of updateEffectParameter
ClampToRange(param, value) == MathMax(param.min, MathMin(param.max, value))

\* the inputs of updateEffectParameter
AllParamIds == {ChaosFoldParameters[i].id : i \in 1..Len(ChaosFoldParameters)}

UpdateValues == {NaN, PosInfinity, NegInfinity, Num(750)}

AllUpdates ==
    ({EffectIds[i] : i \in 1..Len(EffectIds)} \X AllParamIds \X UpdateValues)
        \cup {<<"unknown", "mix", Num(0)>>, <<"chaosFold", "unknown", Num(0)>>}

\* the updates drawn while the pipeline runs
PipelineUpdates ==
    {<<"chaosFold", "mix", Num(0)>>, <<"chaosFold", "mix", Num(5000)>>}

updateEffectParameter(effectId, paramId, value) ==
    LET ei == FindIndex(effects, effectId)
        pi == IF ei = 0 THEN 0 ELSE FindIndex(effects[ei].parameters, paramId)
    IN  /\ IF pi # 0
           THEN /\ effects' = [effects EXCEPT ![ei].parameters[pi].value =
                                ClampToRange(effects[ei].parameters[pi], value)]
                /\ computeCache' = clearComputeCache(computeCache, effectId)
                \* debounceParameterUpdate: the pending timer, if any, is
                \* cleared and a new one is set
                /\ updateTimers' = updateTimers \cup {effectId}
           ELSE UNCHANGED <<effects, computeCache, updateTimers>>
        /\ UNCHANGED <<bypassedEffects, call, requests, nCalls>>

\* the timer callback of debounceParameterUpdate
ParameterTimerFires(effectId) ==
    /\ effectId \in updateTimers
    /\ updateTimers' = updateTimers \ {effectId}
    /\ UNCHANGED <<effects, bypassedEffects, computeCache, call, requests,
                   nCalls, nUpdates>>

\* the delay of the debounce timer (ms), and the step in which time is counted
DebounceMs == 50
DebounceTick == DebounceMs \div 2

\* the timers of `timers` that are pending for an effect
TimersOf(timers, effectId) == {t \in timers : t.effectId = effectId}

\* a debounceParameterUpdate that would set the new timer and leave the old
\* one running
debounceParameterUpdateKeepsTimer(effectId) ==
    pendingTimers' =
        {[t EXCEPT !.inMap = IF t.effectId = effectId THEN FALSE ELSE @] :
            t \in pendingTimers}
            \cup {[effectId |-> effectId, remaining |-> DebounceMs, inMap |-> TRUE]}

\* debounceParameterUpdate (lines 214-224) on the timers of the window: the
\* timer updateTimers holds for the effect is cleared, a new one is set and
\* stored (inMap: it is the one updateTimers holds)
debounceParameterUpdate(effectId) ==
    pendingTimers' =
        {t \in pendingTimers : ~(t.effectId = effectId /\ t.inMap)}
            \cup {[effectId |-> effectId, remaining |-> DebounceMs, inMap |-> TRUE]}

\* onParametersChanged (lines 230-236): the event and its detail
onParametersChanged(effectId) ==
    dispatched' =
        <<[type |-> "effect-parameters-changed", effectId |-> effectId,
           effect |-> effects[FindIndex(effects, effectId)]]>>

\* updateEffectParameter (lines 195-208) with the timers of the window
UpdateWithTimers(effectId, paramId, value) ==
    LET ei == FindIndex(effects, effectId)
        pi == IF ei = 0 THEN 0 ELSE FindIndex(effects[ei].parameters, paramId)
    IN  /\ updateEffectParameter(effectId, paramId, value)
        /\ IF pi # 0
           THEN debounceParameterUpdate(effectId)
           ELSE UNCHANGED pendingTimers
        /\ dispatched' = <<>>

\* the callback of a timer of debounceParameterUpdate (lines 219-223), no
\* earlier than DebounceMs after the timer was set
DebounceTimerFires(t) ==
    /\ t \in pendingTimers
    /\ t.remaining = 0
    /\ pendingTimers' = pendingTimers \ {t}
    /\ ParameterTimerFires(t.effectId)
    /\ onParametersChanged(t.effectId)

\* DebounceTick of time pass
DebounceTimePasses ==
    /\ \E t \in pendingTimers : t.remaining > 0
    /\ pendingTimers' =
           {[t EXCEPT !.remaining =
                        IF @ > DebounceTick THEN @ - DebounceTick ELSE 0] :
               t \in pendingTimers}
    /\ dispatched' = <<>>
    /\ UNCHANGED <<effects, bypassedEffects, computeCache, updateTimers, call,
                   requests, nCalls, nUpdates>>

toggleBypass(effectId) ==
    LET ei == FindIndex(effects, effectId)
        newBypassState == ~isEffectBypassed(effectId)
    IN  /\ IF ei # 0
           THEN /\ bypassedEffects' =
                      IF newBypassState THEN bypassedEffects \cup {effectId}
                      ELSE bypassedEffects \ {effectId}
                /\ computeCache' = clearComputeCache(computeCache, effectId)
           ELSE UNCHANGED <<bypassedEffects, computeCache>>
        /\ UNCHANGED <<effects, updateTimers, call, requests, nCalls, nUpdates>>

ToggleInputs == {EffectIds[i] : i \in 1..Len(EffectIds)} \cup {"unknown"}

----------------------------------------------------------------------------
(* applyEffects *)

\* the values handed to applyEffects
ApplyInputs == {Arr(w) : w \in Waveforms} \cup {Arr(<<>>), NotAnArray}

\* What the backend (or the network) answers to one request:
\*   net: "ok" a response arrived, "error" fetch rejected, "abort" the 5 s
\*        timer aborted the request;
\*   ok:  response.ok;  error: the body's error field ("" when absent);
\*   waveform: the body's waveform field.
Response(net, ok, err, waveform) ==
    [net |-> net, ok |-> ok, error |-> err, waveform |-> waveform]

Responses ==
    {Response("error", FALSE, "", NotAnArray),
     Response("abort", FALSE, "", NotAnArray),
     Response("ok", FALSE, "", NotAnArray),
     Response("ok", FALSE, "bad parameters", NotAnArray),
     Response("ok", TRUE, "effect failed", Arr(<<One>>)),
     Response("ok", TRUE, "", NotAnArray)}
    \cup {Response("ok", TRUE, "", Arr(w)) : w \in Waveforms \cup {<<>>}}

\* call.lastResp before any response of the call has arrived
NoResponse == Response("none", FALSE, "", NotAnArray)

\* the error a response makes the stage throw, "" when the stage succeeds
StageError(resp) ==
    IF resp.net = "error" THEN "Failed to fetch"
    ELSE IF resp.net = "abort" THEN "The operation was aborted"
    ELSE IF ~resp.ok
         THEN (IF resp.error # "" THEN resp.error ELSE "Failed to apply effect")
    ELSE IF resp.error # "" THEN resp.error
    ELSE IF ~resp.waveform.isArray THEN "Invalid waveform data received"
    ELSE ""

\* the cache test of applyEffects (lines 322-327)
CacheHit(cache, cacheKey, parameters, processedData) ==
    /\ cacheKey \in DOMAIN cache
    /\ JSONstringify(cache[cacheKey].params) = JSONstringify(parameters)
    /\ Len(cache[cacheKey].result) = Len(processedData)

\* the body of the POST request of a stage
\* a pipeline that is not sequential: every stage is sent the call's input
RequestBodyFromInput(effect, processedData, parameters, input) ==
    [effectId |-> effect.id, waveform |-> input, parameters |-> parameters]

RequestBody(effect, processedData, parameters, input) ==
    [effectId |-> effect.id, waveform |-> processedData, parameters |-> parameters]

IdleCall ==
    [pc |-> "idle", input |-> NotAnArray, idx |-> 0, processedData |-> <<>>,
     parameters |-> <<>>, cacheKey |-> StringKey(""), result |-> <<>>,
     error |-> "", trace |-> <<>>, lastResp |-> NoResponse]

\* one entry of the history of a call's loop
Visit(i, kind, key, in, out) ==
    [idx |-> i, kind |-> kind, key |-> key, in |-> in, out |-> out]

\* The loop of applyEffects from registry index i on, run until it has to wait
\* for fetch or returns: bypassed effects are skipped, cached stages are taken
\* from the cache.  `c` is the call so far (c.trace is history).
RECURSIVE RunLoop(_, _, _, _)
RunLoop(c, processedData, i, cache) ==
    IF i > Len(effects)
    THEN [c EXCEPT !.pc = "returned", !.idx = 0, !.result = processedData,
                   !.processedData = processedData]
    ELSE IF isEffectBypassed(effects[i].id)
    THEN RunLoop([c EXCEPT !.trace =
                     Append(@, Visit(i, "bypassed", StringKey(""), processedData,
                                     processedData))],
                 processedData, i + 1, cache)
    ELSE LET parameters == Parameters(effects[i])
             cacheKey == getCacheKey(effects[i].id, parameters)
         IN  IF CacheHit(cache, cacheKey, parameters, processedData)
             THEN RunLoop([c EXCEPT !.trace =
                             Append(@, Visit(i, "cached", cacheKey, processedData,
                                             cache[cacheKey].result))],
                          cache[cacheKey].result, i + 1, cache)
             ELSE [c EXCEPT !.pc = "fetch", !.idx = i,
                            !.processedData = processedData,
                            !.parameters = parameters, !.cacheKey = cacheKey]

\* what the catch block does with the error of a stage (lines 385-402)
\* a pipeline that tolerates a failing stage: the call returns the data it
\* holds instead of rejecting
StageSwallowed(c, message) ==
    [c EXCEPT !.pc = "returned", !.result = c.processedData]

StageFailed(c, message) ==
    [c EXCEPT !.pc = "rejected", !.error = message]

CallOver == call.pc \in {"idle", "returned", "rejected"}

\* applyEffects(waveformData) up to its first await
applyEffects(data) ==
    /\ CallOver
    /\ nCalls < MaxCalls
    /\ nCalls' = nCalls + 1
    /\ LET c0 == [IdleCall EXCEPT !.input = data]
           c1 == IF ~data.isArray \/ Len(data.items) = 0
                 THEN [c0 EXCEPT !.pc = "rejected",
                                 !.error = "Invalid waveform data"]
                 ELSE RunLoop(c0, data.items, 1, computeCache)
       IN  /\ call' = c1
           /\ requests' =
                IF c1.pc = "fetch"
                THEN <<RequestBody(effects[c1.idx], c1.processedData,
                                   c1.parameters, data.items)>>
                ELSE <<>>
    /\ UNCHANGED <<effects, bypassedEffects, computeCache, updateTimers,
                   nUpdates>>

\* the awaited fetch of the current stage settles, and the call runs on to its
\* next await or to its end.  (The awaits of response.json() read and write
\* nothing of the manager, so they are folded into this step.)
FetchSettles(resp) ==
    /\ call.pc = "fetch"
    /\ LET message == StageError(resp)
           effectId == effects[call.idx].id
       IN  IF message # ""
           THEN /\ call' = StageFailed([call EXCEPT !.lastResp = resp], message)
                /\ computeCache' = clearComputeCache(computeCache, effectId)
                /\ requests' = requests
           ELSE LET result == resp.waveform.items
                    cache == MapSet(computeCache, call.cacheKey,
                                    [params |-> call.parameters, result |-> result])
                    c1 == RunLoop([call EXCEPT !.lastResp = resp, !.trace =
                                      Append(@, Visit(call.idx, "fetched", call.cacheKey,
                                                      call.processedData, result))],
                                  result, call.idx + 1, cache)
                IN  /\ computeCache' = cache
                    /\ call' = c1
                    /\ requests' =
                         IF c1.pc = "fetch"
                         THEN Append(requests,
                                     RequestBody(effects[c1.idx], c1.processedData,
                                                 c1.parameters, call.input.items))
                         ELSE requests
    /\ UNCHANGED <<effects, bypassedEffects, updateTimers, nCalls, nUpdates>>

----------------------------------------------------------------------------
(* applyEffects, the variant whose catch block continues (config.ts 690-738) *)

IdleTolerantCall ==
    [pc |-> "idle", idx |-> 0, processedData |-> NotAnArray,
     result |-> NotAnArray, trace |-> <<>>]

\* the answers to a request of this variant, which sets no abort timer
TolerantResponses == {r \in Responses : r.net # "abort"}

\* The loop from registry index i on, run until it has to wait for fetch or
\* returns; bypassed effects are skipped.  processedData is a JavaScript
\* value: an array, or NotAnArray for undefined
RECURSIVE RunTolerant(_, _, _)
RunTolerant(c, processedData, i) ==
    IF i > Len(effects)
    THEN [c EXCEPT !.pc = "returned", !.idx = 0, !.result = processedData,
                   !.processedData = processedData]
    ELSE IF isEffectBypassed(effects[i].id)
    THEN RunTolerant(c, processedData, i + 1)
    ELSE [c EXCEPT !.pc = "fetch", !.idx = i, !.processedData = processedData]

\* the body of the POST request of a stage (JSON.stringify leaves out a
\* waveform that is undefined)
TolerantRequestBody(effect, processedData) ==
    [effectId |-> effect.id, waveform |-> processedData,
     parameters |-> Parameters(effect)]

\* what the try block of a stage does with a response (lines 710-730): whether
\* it threw, whether it stored the result in the cache, and the processedData
\* it leaves.  `processedData = result.waveform` runs before
\* `[...result.waveform]`, which throws when the body has no waveform
StageOutcome(resp, processedData) ==
    IF resp.net # "ok" \/ ~resp.ok \/ resp.error # ""
    THEN [failed |-> TRUE, stored |-> FALSE, processedData |-> processedData]
    ELSE IF ~resp.waveform.isArray
    THEN [failed |-> TRUE, stored |-> FALSE, processedData |-> resp.waveform]
    ELSE [failed |-> FALSE, stored |-> TRUE, processedData |-> resp.waveform]

TolerantCallOver == tolerantCall.pc \in {"idle", "returned", "rejected"}

\* applyEffects(waveformData) up to its first await; [...waveformData] throws
\* when waveformData is not iterable
applyEffectsTolerant(data) ==
    /\ TolerantCallOver
    /\ LET c1 == IF ~data.isArray
                 THEN [IdleTolerantCall EXCEPT !.pc = "rejected"]
                 ELSE RunTolerant(IdleTolerantCall, data, 1)
       IN  /\ tolerantCall' = c1
           /\ tolerantRequests' =
                  IF c1.pc = "fetch"
                  THEN <<TolerantRequestBody(effects[c1.idx], c1.processedData)>>
                  ELSE <<>>
    /\ UNCHANGED computeCache

\* the awaited fetch of the current stage settles, and the call runs on to its
\* next await or to its end; the catch block continues with the next effect
TolerantFetchSettles(resp) ==
    /\ tolerantCall.pc = "fetch"
    /\ LET effect == effects[tolerantCall.idx]
           outcome == StageOutcome(resp, tolerantCall.processedData)
           visit == [idx |-> tolerantCall.idx,
                     kind |-> IF outcome.failed THEN "failed" ELSE "fetched",
                     in |-> tolerantCall.processedData,
                     out |-> outcome.processedData]
           c1 == RunTolerant([tolerantCall EXCEPT !.trace = Append(@, visit)],
                             outcome.processedData, tolerantCall.idx + 1)
       IN  /\ computeCache' =
                  IF outcome.stored
                  THEN MapSet(computeCache,
                              getCacheKey(effect.id, Parameters(effect)),
                              [params |-> Parameters(effect),
                               result |-> resp.waveform.items])
                  ELSE computeCache
           /\ tolerantCall' = c1
           /\ tolerantRequests' =
                  IF c1.pc = "fetch"
                  THEN Append(tolerantRequests,
                              TolerantRequestBody(effects[c1.idx],
                                                  c1.processedData))
                  ELSE tolerantRequests

----------------------------------------------------------------------------
(* WavetableEditor: generation and handleEffectChange *)

DEFAULT_FRAME_COUNT == 32

\* the frame count generateWaveform and handleBasicWaveform ask the backend for
REQUESTED_FRAMES == 256

boundValue(value) ==
    IF value > One THEN One ELSE IF value < -One THEN -One ELSE value

\* 1000 * cos(pi * n / d) for -d <= 2n <= d, by Bhaskara's rational formula
\* cos(x) ~ (pi^2 - 4x^2) / (pi^2 + x^2), which is within 0.002 of Math.cos
\* and, like it, stays within [-1, 1]
CosQuadrant(n, d) == (1000 * (d * d - 4 * n * n)) \div (d * d + n * n)

\* 1000 * Math.cos(pi * num / den), num >= 0, den > 0
CosMilli(num, den) ==
    LET r == num % (2 * den)
    IN  IF 2 * r <= den THEN CosQuadrant(r, den)
        ELSE IF 2 * r < 3 * den THEN -CosQuadrant(r - den, den)
        ELSE CosQuadrant(r - 2 * den, den)

\* the frames handleEffectChange builds from the processed data (lines
\* 646-653): frame i, sample j is boundValue(sample * cos(phase + frameOffset))
\* with phase = 2 pi j / length and frameOffset = pi i / DEFAULT_FRAME_COUNT
NewFrames(processedData) ==
    LET n == Len(processedData)
    IN  [i \in 1..DEFAULT_FRAME_COUNT |->
            [j \in 1..n |->
                boundValue((processedData[j]
                            * CosMilli(2 * DEFAULT_FRAME_COUNT * (j - 1) + (i - 1) * n,
                                       DEFAULT_FRAME_COUNT * n)) \div 1000)]]

NoData ==
    [isNull |-> TRUE, waveform |-> <<>>, frames |-> <<>>, num_frames |-> 0,
     frame_size |-> 0]

\* a wavetable as the backend answers it: REQUESTED_FRAMES frames
Wavetable(w) ==
    [isNull |-> FALSE, waveform |-> w, frames |-> [i \in 1..REQUESTED_FRAMES |-> w],
     num_frames |-> REQUESTED_FRAMES, frame_size |-> Len(w)]

\* what the backend answers to a generation request: a wavetable, or a failure
GenerateResponses ==
    {[ok |-> TRUE, data |-> Wavetable(w)] : w \in Waveforms}
        \cup {[ok |-> FALSE, data |-> NoData]}

\* the number of samples of each frame, frame by frame
Shape(fr) == [i \in 1..Len(fr) |-> Len(fr[i])]

Ready == [effectChange |-> FALSE, generating |-> FALSE]

\* generateWaveform / handleBasicWaveform up to the awaited fetch
generateWaveform ==
    /\ editorPc = Ready
    /\ error' = ""
    /\ editorPc' = [editorPc EXCEPT !.generating = TRUE]
    /\ UNCHANGED <<waveformData, frames, isEffectProcessing>>

\* ... and from the response on
GenerateSettles(resp) ==
    /\ editorPc.generating
    /\ ~editorPc.effectChange
    /\ editorPc' = [editorPc EXCEPT !.generating = FALSE]
    /\ IF resp.ok
       THEN /\ waveformData' = resp.data
            /\ frames' = resp.data.frames
            /\ UNCHANGED error
       ELSE /\ error' = "Server error"
            /\ UNCHANGED <<waveformData, frames>>
    /\ UNCHANGED isEffectProcessing

\* EffectControls.handleParameterChange up to its call of onEffectChange; the
\* slider is disabled while the effect is bypassed or an effect is processing
handleParameterChange(effectId, paramId, value) ==
    /\ ~editorPc.effectChange
    /\ ~isEffectProcessing
    /\ ~isEffectBypassed(effectId)
    /\ nCalls < MaxCalls
    /\ updateEffectParameter(effectId, paramId, value)
    /\ editorPc' = [editorPc EXCEPT !.effectChange = TRUE]
    /\ UNCHANGED <<waveformData, frames, error, isEffectProcessing>>

\* EffectControls.handleBypassToggle up to its call of onEffectChange
handleBypassToggle(effectId) ==
    /\ ~editorPc.effectChange
    /\ ~isEffectProcessing
    /\ nCalls < MaxCalls
    /\ toggleBypass(effectId)
    /\ editorPc' = [editorPc EXCEPT !.effectChange = TRUE]
    /\ UNCHANGED <<waveformData, frames, error, isEffectProcessing>>

\* handleEffectChange without its finally block: a rejection leaves
\* isEffectProcessing as it is
AfterApplyEffectsNoFinally ==
    IF call'.pc = "returned"
    THEN /\ waveformData' = [waveformData EXCEPT
                               !.waveform = call'.result,
                               !.frames = NewFrames(call'.result)]
         /\ frames' = NewFrames(call'.result)
         /\ isEffectProcessing' = FALSE
         /\ UNCHANGED error
    ELSE IF call'.pc = "rejected"
    THEN /\ error' = call'.error
         /\ isEffectProcessing' = TRUE
         /\ UNCHANGED <<waveformData, frames>>
    ELSE /\ isEffectProcessing' = TRUE
         /\ UNCHANGED <<waveformData, frames, error>>

\* handleEffectChange from the point where applyEffects has stopped at an
\* await or has settled (a settled promise is continued before any other
\* handler runs): the state update, the catch and the finally
AfterApplyEffects ==
    IF call'.pc = "returned"
    THEN /\ waveformData' = [waveformData EXCEPT
                               !.waveform = call'.result,
                               !.frames = NewFrames(call'.result)]
         /\ frames' = NewFrames(call'.result)
         /\ isEffectProcessing' = FALSE
         /\ UNCHANGED error
    ELSE IF call'.pc = "rejected"
    THEN /\ error' = call'.error
         /\ isEffectProcessing' = FALSE
         /\ UNCHANGED <<waveformData, frames>>
    ELSE /\ isEffectProcessing' = TRUE
         /\ UNCHANGED <<waveformData, frames, error>>

handleEffectChange ==
    /\ editorPc.effectChange
    /\ editorPc' = [editorPc EXCEPT !.effectChange = FALSE]
    /\ IF waveformData.isNull
       THEN UNCHANGED <<effects, bypassedEffects, computeCache, updateTimers,
                        call, requests, nCalls, nUpdates, waveformData, frames,
                        error, isEffectProcessing>>
       ELSE /\ applyEffects(Arr(waveformData.waveform))
            /\ AfterApplyEffects

\* the awaited fetch settles while handleEffectChange waits for applyEffects
EffectFetchSettles(resp) ==
    /\ isEffectProcessing
    /\ FetchSettles(resp)
    /\ AfterApplyEffects
    /\ UNCHANGED editorPc

----------------------------------------------------------------------------
(* WavetableEditor with the formant slider (the version of part_007):      *)
(* generation, previewFormantEffect, updateVisualPreview, enhanceHarmonics *)
(* and the slider's handlers.  This version and the one above are two      *)
(* versions of one component; each specification drives one of them.       *)

\* the formant strength is counted in quarters: 1.0 is StrengthUnit
StrengthUnit == 2 * 2

\* useState numFrames: the frame count asked of the backend
numFrames == 256

\* slider positions (min -1, max 1)
Strengths == {-StrengthUnit, -1, 0, 2, StrengthUnit}

\* wavetables the backend answers; raw synthesizer output is not bounded
FormantWaveforms ==
    {<<One, -One \div 4>>, <<2 * One, 0>>, <<-3 * One, One \div 2>>}

FormantWavetable(w) ==
    [isNull |-> FALSE, waveform |-> w, frames |-> [i \in 1..numFrames |-> w],
     num_frames |-> numFrames, frame_size |-> Len(w)]

FormantResponses ==
    {[ok |-> TRUE, data |-> FormantWavetable(w)] : w \in FormantWaveforms}
        \cup {[ok |-> FALSE, data |-> NoData]}

\* what the backend answers to an enhance request
EnhanceResponses ==
    {[ok |-> TRUE, frames |-> [i \in 1..numFrames |-> w]] : w \in Waveforms}
        \cup {[ok |-> FALSE, frames |-> <<>>]}

MathSign(y) == IF y > 0 THEN 1 ELSE IF y < 0 THEN -1 ELSE 0
MathAbs(y) == IF y < 0 THEN -y ELSE y

\* a shaper that is never neutral: it always reduces by the square term
previewSampleReducing(y, strength) ==
    MathSign(y) * (MathAbs(y) - (MathAbs(y) * MathAbs(y)) \div (StrengthUnit * One))

\* one sample of previewFormantEffect (the body of frame.map)
previewSample(y, strength) ==
    LET sign == MathSign(y)
        abs == MathAbs(y)
    IN  IF strength > 0
        THEN sign * (abs + (strength * abs * (One - abs)) \div (StrengthUnit * One))
        ELSE sign * (abs + (strength * abs * abs) \div (StrengthUnit * One))

previewFormantEffect(frame, strength) ==
    IF Len(frame) = 0 THEN frame
    ELSE [j \in 1..Len(frame) |-> previewSample(frame[j], strength)]

updateVisualPreview(strength) ==
    IF waveformData.isNull \/ originalWaveformRef.isNull
    THEN UNCHANGED <<waveformData, previewed>>
    ELSE LET originalFrames == originalWaveformRef.frames
             originalWaveform == originalWaveformRef.waveform
             previewFrame == previewFormantEffect(originalWaveform, strength)
             previewFrames ==
                 [i \in 1..Len(originalFrames) |->
                     previewFormantEffect(originalFrames[i], strength)]
         IN  /\ waveformData' = [waveformData EXCEPT !.frames = previewFrames,
                                                     !.waveform = previewFrame]
             /\ previewed' = TRUE

\* generateWaveform / handleBasicWaveform of this version, up to the fetch
FormantGenerate ==
    /\ editorPc = Ready
    /\ error' = ""
    /\ editorPc' = [editorPc EXCEPT !.generating = TRUE]
    /\ UNCHANGED <<waveformData, previewVars>>

\* ... and from the response on
FormantGenerateSettles(resp) ==
    /\ editorPc.generating
    /\ editorPc' = [editorPc EXCEPT !.generating = FALSE]
    /\ IF resp.ok
       THEN /\ harmonicStrength' = 0
            /\ waveformData' = resp.data
            /\ originalWaveformRef' = resp.data
            /\ previewed' = FALSE
            /\ UNCHANGED error
       ELSE /\ error' = "Failed to generate waveform"
            /\ UNCHANGED <<waveformData, originalWaveformRef, harmonicStrength,
                           previewed>>
    /\ UNCHANGED <<isDraggingFormant, harmonicTimeoutRef, lastEnhanceTime,
                   enhanceRequests>>

\* the state a handler created by the current render sees
Closure ==
    [strength |-> harmonicStrength, dragging |-> isDraggingFormant,
     hasData |-> ~waveformData.isNull]

NoTimer == [set |-> FALSE, closure |-> [strength |-> 0, dragging |-> FALSE,
                                        hasData |-> FALSE]]

\* enhanceHarmonics up to its fetch, as created by the render of `closure`;
\* tooSoon: less than 50 ms have passed since lastEnhanceTime
enhanceHarmonics(closure, tooSoon) ==
    IF ~closure.hasData \/ originalWaveformRef.isNull \/ tooSoon
    THEN UNCHANGED <<lastEnhanceTime, enhanceRequests>>
    ELSE /\ lastEnhanceTime' = 1
         /\ enhanceRequests' =
                Append(enhanceRequests,
                       [strength |-> closure.strength, dragging |-> closure.dragging])

\* Date.now() is never within 50 ms of the initial lastEnhanceTime of 0
TooSoon == IF lastEnhanceTime = 0 THEN {FALSE} ELSE BOOLEAN

\* ... and from the response on
EnhanceSettles(resp) ==
    /\ enhanceRequests # <<>>
    /\ LET req == Head(enhanceRequests)
       IN  IF ~resp.ok
           THEN /\ error' = "Failed to enhance harmonics"
                /\ UNCHANGED <<waveformData, previewed>>
           ELSE IF ~req.dragging
           THEN /\ waveformData' = [waveformData EXCEPT
                                      !.frames = resp.frames,
                                      !.waveform = resp.frames[1]]
                /\ previewed' = FALSE
                /\ UNCHANGED error
           ELSE UNCHANGED <<waveformData, previewed, error>>
    /\ enhanceRequests' = Tail(enhanceRequests)
    /\ UNCHANGED <<editorPc, originalWaveformRef, harmonicStrength,
                   isDraggingFormant, harmonicTimeoutRef, lastEnhanceTime>>

\* the slider's onMouseDown
FormantMouseDown ==
    /\ isDraggingFormant' = TRUE
    /\ UNCHANGED <<waveformData, error, editorPc, originalWaveformRef,
                   harmonicStrength, harmonicTimeoutRef, lastEnhanceTime,
                   enhanceRequests, previewed>>

\* the slider's onMouseUp
FormantMouseUp ==
    /\ Len(enhanceRequests) < MaxEnhance
    /\ isDraggingFormant' = FALSE
    /\ \E tooSoon \in TooSoon : enhanceHarmonics(Closure, tooSoon)
    /\ UNCHANGED <<waveformData, error, editorPc, originalWaveformRef,
                   harmonicStrength, harmonicTimeoutRef, previewed>>

\* the slider's onMouseLeave
FormantMouseLeave ==
    /\ Len(enhanceRequests) < MaxEnhance
    /\ IF isDraggingFormant
       THEN /\ isDraggingFormant' = FALSE
            /\ \E tooSoon \in TooSoon : enhanceHarmonics(Closure, tooSoon)
       ELSE UNCHANGED <<isDraggingFormant, lastEnhanceTime, enhanceRequests>>
    /\ UNCHANGED <<waveformData, error, editorPc, originalWaveformRef,
                   harmonicStrength, harmonicTimeoutRef, previewed>>

\* the slider's onChange
FormantChange(newStrength) ==
    /\ harmonicStrength' = newStrength
    /\ updateVisualPreview(newStrength)
    /\ harmonicTimeoutRef' =
           IF ~isDraggingFormant THEN [set |-> TRUE, closure |-> Closure]
           ELSE NoTimer
    /\ UNCHANGED <<error, editorPc, originalWaveformRef, isDraggingFormant,
                   lastEnhanceTime, enhanceRequests>>

\* the 50 ms timer of harmonicTimeoutRef fires
FormantTimerFires ==
    /\ harmonicTimeoutRef.set
    /\ Len(enhanceRequests) < MaxEnhance
    /\ harmonicTimeoutRef' = NoTimer
    /\ \E tooSoon \in TooSoon :
          enhanceHarmonics(harmonicTimeoutRef.closure, tooSoon)
    /\ UNCHANGED <<waveformData, error, editorPc, originalWaveformRef,
                   harmonicStrength, isDraggingFormant, previewed>>

----------------------------------------------------------------------------
(* WavetableEditor.tsx (components/WavetableEditor.tsx): generation, the   *)
(* effect that stores the original waveform, the formant preview and       *)
(* enhance request, and the chaos wavefolder.  A third version of the      *)
(* component, driven by a specification of its own.                        *)
(*                                                                         *)
(* Here a sample is a JSON value as response.json() delivers it: a number  *)
(* Num(v) with v in 64ths, null, or a string; chaos parameters are         *)
(* JavaScript numbers in thousandths.                                      *)

JSNull == [kind |-> "null", val |-> 0]

\* a string; numeric: its text is a numeric literal, of value val
JSString(numeric, val) ==
    [kind |-> IF numeric THEN "numeric string" ELSE "string", val |-> val]

\* Number(value)
Number(value) ==
    IF value.kind = "null" THEN Num(0)
    ELSE IF value.kind = "numeric string" THEN Num(value.val)
    ELSE IF value.kind = "string" THEN NaN
    ELSE value

isNaN(num) == num.kind = "NaN"

InitialChaosParams ==
    [sigma |-> Num(5000), rho |-> Num(14000), beta |-> Num(1330), dt |-> Num(5)]

ChaosKeys == {"sigma", "rho", "beta", "dt"}

\* e.target.value of a chaos slider's change event
ChaosTargetValues == {JSString(TRUE, 7000), JSString(FALSE, 0)}

ChaosChanges ==
    {<<"sigma", v>> : v \in ChaosTargetValues} \cup {<<"dt", JSString(FALSE, 0)>>}

Equations == {"sin(t)", "t"}

\* waveforms the backend answers to a generation request
TsxWaveforms ==
    {<<Num(-2 * One)>>, <<JSNull>>, <<JSString(FALSE, 0)>>}

TsxWavetable(w) ==
    [isNull |-> FALSE, waveform |-> w, frames |-> [i \in 1..MaxFrames |-> w],
     num_frames |-> MaxFrames, frame_size |-> Len(w), type |-> "", equation |-> ""]

\* a response as fetchWithCredentials sees it: net "error" when fetch rejects;
\* ok: response.ok; error: the error field of a failure's body ("" when the
\* body has none); data: the body of a success
TsxResponse(net, ok, err, data) ==
    [net |-> net, ok |-> ok, error |-> err, data |-> data]

TsxFailures ==
    {TsxResponse("error", FALSE, "", NoData),
     TsxResponse("ok", FALSE, "", NoData),
     TsxResponse("ok", FALSE, "Invalid equation", NoData)}

TsxGenerateResponses ==
    {TsxResponse("ok", TRUE, "", TsxWavetable(w)) : w \in TsxWaveforms}
        \cup TsxFailures

\* chaos_fold answers: a wavetable, a body without frames, or a failure
TsxChaosResponses ==
    {TsxResponse("ok", TRUE, "", TsxWavetable(<<Num(3 * One)>>)),
     TsxResponse("ok", TRUE, "", NoData),
     TsxResponse("ok", FALSE, "", NoData)}

TsxEnhanceResponses ==
    {TsxResponse("ok", TRUE, "", TsxWavetable(<<Num(One \div 4)>>)),
     TsxResponse("ok", FALSE, "", NoData)}

\* the message of the Error fetchWithCredentials throws (lines 193-197), or
\* of the TypeError of a rejected fetch
fetchWithCredentials(resp) ==
    IF resp.net = "error" THEN "Failed to fetch"
    ELSE IF ~resp.ok THEN (IF resp.error # "" THEN resp.error ELSE "Server error")
    ELSE ""

\* the useEffect on [waveformData, equation] (lines 202-217): the value of
\* originalWaveformRef.current after it has run
StoreOriginal(data, eq, original) ==
    IF ~data.isNull /\ (original.isNull \/ eq # original.equation)
    THEN [data EXCEPT !.equation = eq,
                      !.type = IF data.type = "" THEN "custom" ELSE data.type]
    ELSE original

\* the equation input's onChange: setEquation, then the effect
setEquation(text) ==
    /\ equation' = text
    /\ originalWaveformRef' = StoreOriginal(waveformData, text, originalWaveformRef)
    /\ UNCHANGED <<waveformData, error, harmonicStrength, isDraggingFormant,
                   lastEnhanceTime, enhanceRequests, chaosParams, debouncedParams,
                   isChaosEnabled, isProcessing, chaosTimer, chaosRequests,
                   generateRequests>>

\* generateWaveform (kind "custom") and handleBasicWaveform (kind "basic") up
\* to the awaited fetch
generateWaveformTsx(kind) ==
    /\ Len(generateRequests) < MaxGenerate
    /\ error' = ""
    /\ generateRequests' =
           Append(generateRequests, [kind |-> kind, equation |-> equation])
    /\ UNCHANGED <<waveformData, originalWaveformRef, equation, harmonicStrength,
                   isDraggingFormant, lastEnhanceTime, enhanceRequests,
                   chaosParams, debouncedParams, isChaosEnabled, isProcessing,
                   chaosTimer, chaosRequests>>

\* a generation whose failure would also drop the waveform on display
GenerateSettlesTsxClearing(resp) ==
    /\ generateRequests # <<>>
    /\ IF fetchWithCredentials(resp) # ""
       THEN /\ error' = fetchWithCredentials(resp)
            /\ waveformData' = NoData
            /\ UNCHANGED <<originalWaveformRef, harmonicStrength>>
       ELSE /\ waveformData' = resp.data
            /\ UNCHANGED <<originalWaveformRef, harmonicStrength, error>>
    /\ generateRequests' = Tail(generateRequests)
    /\ UNCHANGED <<equation, isDraggingFormant, lastEnhanceTime, enhanceRequests,
                   chaosParams, debouncedParams, isChaosEnabled, isProcessing,
                   chaosTimer, chaosRequests>>

\* ... and from the response on, the effect on [waveformData, equation]
\* included
GenerateSettlesTsx(resp) ==
    /\ generateRequests # <<>>
    /\ LET req == Head(generateRequests)
           newWaveformData ==
               IF req.kind = "custom"
               THEN [resp.data EXCEPT !.type = "custom", !.equation = req.equation]
               ELSE resp.data
       IN  IF fetchWithCredentials(resp) # ""
           THEN /\ error' = fetchWithCredentials(resp)
                /\ UNCHANGED <<waveformData, originalWaveformRef, harmonicStrength>>
           ELSE /\ waveformData' = newWaveformData
                /\ harmonicStrength' =
                       IF req.kind = "custom" THEN 0 ELSE harmonicStrength
                /\ originalWaveformRef' =
                       StoreOriginal(newWaveformData, equation,
                                     IF req.kind = "custom" THEN newWaveformData
                                     ELSE originalWaveformRef)
                /\ UNCHANGED error
    /\ generateRequests' = Tail(generateRequests)
    /\ UNCHANGED <<equation, isDraggingFormant, lastEnhanceTime, enhanceRequests,
                   chaosParams, debouncedParams, isChaosEnabled, isProcessing,
                   chaosTimer, chaosRequests>>

\* one sample of the preview of updateVisualPreview (lines 251-254):
\* sample * (1 + strength * 0.5), bounded by Math.max(-1, Math.min(1, .))
previewSampleTsx(sample, strength) ==
    LET n == Number(sample)
    IN  IF n.kind # "num" THEN NaN
        ELSE Num(boundValue((n.val * (2 * StrengthUnit + strength))
                                \div (2 * StrengthUnit)))

\* the formant slider's onChange: setHarmonicStrength and updateVisualPreview
FormantChangeTsx(newStrength) ==
    /\ harmonicStrength' = newStrength
    /\ IF waveformData.isNull \/ originalWaveformRef.isNull
       THEN UNCHANGED <<waveformData, originalWaveformRef>>
       ELSE LET orig == originalWaveformRef.frames
                previewFrames ==
                    [i \in 1..Len(orig) |->
                        [j \in 1..Len(orig[i]) |->
                            previewSampleTsx(orig[i][j], newStrength)]]
                data == [waveformData EXCEPT !.frames = previewFrames,
                                             !.waveform = previewFrames[1]]
            IN  /\ waveformData' = data
                /\ originalWaveformRef' =
                       StoreOriginal(data, equation, originalWaveformRef)
    /\ UNCHANGED <<error, equation, isDraggingFormant, lastEnhanceTime,
                   enhanceRequests, chaosParams, debouncedParams, isChaosEnabled,
                   isProcessing, chaosTimer, chaosRequests, generateRequests>>

\* enhanceHarmonics (lines 365-380) up to its fetch
enhanceHarmonicsTsx(closure, tooSoon) ==
    IF ~closure.hasData \/ originalWaveformRef.isNull \/ tooSoon
    THEN UNCHANGED <<lastEnhanceTime, enhanceRequests>>
    ELSE /\ lastEnhanceTime' = 1
         /\ enhanceRequests' =
                Append(enhanceRequests,
                       [frames |-> originalWaveformRef.frames,
                        strength |-> closure.strength,
                        dragging |-> closure.dragging])

\* the formant slider's onMouseUp, and its onMouseLeave while dragging
FormantDragEndsTsx ==
    /\ Len(enhanceRequests) < MaxEnhance
    /\ isDraggingFormant' = FALSE
    /\ \E tooSoon \in TooSoon : enhanceHarmonicsTsx(Closure, tooSoon)
    /\ UNCHANGED <<waveformData, originalWaveformRef, error, equation,
                   harmonicStrength, chaosParams, debouncedParams, isChaosEnabled,
                   isProcessing, chaosTimer, chaosRequests, generateRequests>>

\* the formant slider's onMouseDown
FormantMouseDownTsx ==
    /\ isDraggingFormant' = TRUE
    /\ UNCHANGED <<waveformData, originalWaveformRef, error, equation,
                   harmonicStrength, lastEnhanceTime, enhanceRequests,
                   chaosParams, debouncedParams, isChaosEnabled, isProcessing,
                   chaosTimer, chaosRequests, generateRequests>>

\* enhanceHarmonics from the response on (lines 382-402)
EnhanceSettlesTsx(resp) ==
    /\ enhanceRequests # <<>>
    /\ LET req == Head(enhanceRequests)
           orig == originalWaveformRef
           data == [waveformData EXCEPT
                       !.frames = resp.data.frames,
                       !.waveform = resp.data.frames[1],
                       !.type = IF orig.type # "" THEN orig.type ELSE @,
                       !.equation = IF orig.equation # "" THEN orig.equation ELSE @]
       IN  IF fetchWithCredentials(resp) # ""
           THEN /\ error' = fetchWithCredentials(resp)
                /\ UNCHANGED <<waveformData, originalWaveformRef>>
           ELSE IF ~req.dragging
           THEN /\ waveformData' = data
                /\ originalWaveformRef' =
                       StoreOriginal(data, equation, originalWaveformRef)
                /\ UNCHANGED error
           ELSE UNCHANGED <<waveformData, originalWaveformRef, error>>
    /\ enhanceRequests' = Tail(enhanceRequests)
    /\ UNCHANGED <<equation, harmonicStrength, isDraggingFormant, lastEnhanceTime,
                   chaosParams, debouncedParams, isChaosEnabled, isProcessing,
                   chaosTimer, chaosRequests, generateRequests>>

\* the frames applyChaosFolder sends (lines 430-438)
ChaosFrames(fr) ==
    [i \in 1..Len(fr) |->
        [j \in 1..Len(fr[i]) |-> Num(boundValue(Number(fr[i][j]).val))]]

\* the message of the first Error the validation of applyChaosFolder throws
\* (lines 430-452), "" when it throws none
ChaosValidation(fr, params) ==
    IF \E i \in 1..Len(fr) : \E j \in 1..Len(fr[i]) : isNaN(Number(fr[i][j]))
    THEN "Frame values must be numbers"
    ELSE IF \E k \in ChaosKeys : isNaN(Number(params[k]))
    THEN "Invalid parameter"
    ELSE ""

\* applyChaosFolder up to its fetch, called with the debouncedParams of the
\* render that runs it
applyChaosFolder(params) ==
    IF waveformData.isNull \/ originalWaveformRef.isNull
    THEN /\ error' = "No waveform data available"
         /\ UNCHANGED <<isProcessing, chaosRequests>>
    ELSE LET message == ChaosValidation(originalWaveformRef.frames, params)
         IN  IF message # ""
             THEN /\ error' = message
                  /\ isProcessing' = FALSE
                  /\ UNCHANGED chaosRequests
             ELSE /\ error' = ""
                  /\ isProcessing' = TRUE
                  /\ chaosRequests' =
                         Append(chaosRequests,
                                [frames |-> ChaosFrames(originalWaveformRef.frames),
                                 params |-> params,
                                 type |-> waveformData.type,
                                 equation |-> waveformData.equation])

\* the useEffect on [debouncedParams, isChaosEnabled] (lines 498-502)
ChaosEffect(enabled, params) ==
    IF enabled /\ ~originalWaveformRef.isNull
    THEN applyChaosFolder(params)
    ELSE UNCHANGED <<error, isProcessing, chaosRequests>>

\* the Enable Chaos checkbox (disabled while processing), then the effect
setIsChaosEnabled(checked) ==
    /\ ~isProcessing
    /\ Len(chaosRequests) < MaxChaos
    /\ isChaosEnabled' = checked
    /\ IF checked # isChaosEnabled
       THEN ChaosEffect(checked, debouncedParams)
       ELSE UNCHANGED <<error, isProcessing, chaosRequests>>
    /\ UNCHANGED <<waveformData, originalWaveformRef, equation, harmonicStrength,
                   isDraggingFormant, lastEnhanceTime, enhanceRequests,
                   chaosParams, debouncedParams, chaosTimer, generateRequests>>

\* a chaos slider's onChange (rendered while chaos is enabled, disabled while
\* processing), then the effect on [chaosParams] that restarts the timer
setChaosParams(key, targetValue) ==
    /\ isChaosEnabled
    /\ ~isProcessing
    /\ chaosParams' = [chaosParams EXCEPT ![key] = Number(targetValue)]
    /\ chaosTimer' = TRUE
    /\ UNCHANGED <<waveformData, originalWaveformRef, error, equation,
                   harmonicStrength, isDraggingFormant, lastEnhanceTime,
                   enhanceRequests, debouncedParams, isChaosEnabled, isProcessing,
                   chaosRequests, generateRequests>>

\* the 100 ms timer fires: setDebouncedParams(chaosParams), then the effect
ChaosTimerFires ==
    /\ chaosTimer
    /\ Len(chaosRequests) < MaxChaos
    /\ chaosTimer' = FALSE
    /\ debouncedParams' = chaosParams
    /\ ChaosEffect(isChaosEnabled, chaosParams)
    /\ UNCHANGED <<waveformData, originalWaveformRef, equation, harmonicStrength,
                   isDraggingFormant, lastEnhanceTime, enhanceRequests,
                   chaosParams, isChaosEnabled, generateRequests>>

\* applyChaosFolder from the response on (lines 462-488)
ChaosSettles(resp) ==
    /\ chaosRequests # <<>>
    /\ LET req == Head(chaosRequests)
           fr == resp.data.frames
           bounded == [i \in 1..Len(fr) |->
                          [j \in 1..Len(fr[i]) |->
                              Num(boundValue(Number(fr[i][j]).val))]]
           newWaveformData ==
               [resp.data EXCEPT
                   !.frames = bounded,
                   !.waveform = bounded[1],
                   !.type = IF req.type # "" THEN req.type ELSE "custom",
                   !.equation = req.equation]
       IN  IF fetchWithCredentials(resp) # ""
           THEN /\ error' = fetchWithCredentials(resp)
                /\ UNCHANGED <<waveformData, originalWaveformRef>>
           ELSE IF resp.data.isNull
           THEN /\ error' = "Invalid response from server"
                /\ UNCHANGED <<waveformData, originalWaveformRef>>
           ELSE /\ waveformData' = newWaveformData
                /\ originalWaveformRef' =
                       StoreOriginal(newWaveformData, equation, originalWaveformRef)
                /\ UNCHANGED error
    /\ isProcessing' = FALSE
    /\ chaosRequests' = Tail(chaosRequests)
    /\ UNCHANGED <<equation, harmonicStrength, isDraggingFormant, lastEnhanceTime,
                   enhanceRequests, chaosParams, debouncedParams, isChaosEnabled,
                   chaosTimer, generateRequests>>

----------------------------------------------------------------------------
(* useSliderInteraction (hooks/useSliderInteraction.ts). The hook keeps the
   latest value in valueRef and, while dragging, delivers it to onChange
   through a window.setTimeout timer that every further handleChange
   restarts. Time is counted in steps of TickMs; a timer fires no earlier
   than its delay. *)

debounceTime == 16
TickMs == debounceTime \div 2

\* the values the slider passes to handleChange
SliderValues == {1, 2}

NullRef == [isNull |-> TRUE, val |-> 0]
Ref(v) == [isNull |-> FALSE, val |-> v]

\* the id window.setTimeout returns: one that no pending timer has and
\* that timeoutRef does not hold
NewTimerId(timers, ref) ==
    CHOOSE n \in 1..(Cardinality(timers) + 2) :
        /\ \A t \in timers : t.id # n
        /\ ref.isNull \/ ref.val # n

\* clearPendingTimeout (lines 14-19): the timers and timeoutRef it leaves
clearPendingTimeout(timers, ref) ==
    IF ~ref.isNull
    THEN [timers |-> {t \in timers : t.id # ref.val}, ref |-> NullRef]
    ELSE [timers |-> timers, ref |-> ref]

\* a handleChange that would leave the pending timer running
handleChangeKeepsTimer(value) ==
    /\ valueRef' = Ref(value)
    /\ IF isDragging
       THEN LET id == NewTimerId(sliderTimers, timeoutRef)
            IN  /\ sliderTimers' =
                       sliderTimers \cup {[id |-> id, remaining |-> debounceTime]}
                /\ timeoutRef' = Ref(id)
                /\ onChange' = <<>>
       ELSE /\ onChange' = <<value>>
            /\ UNCHANGED <<sliderTimers, timeoutRef>>
    /\ UNCHANGED <<disabled, isDragging>>

\* handleChange (lines 21-41)
handleChange(value) ==
    /\ IF disabled
       THEN /\ onChange' = <<>>
            /\ UNCHANGED <<valueRef, sliderTimers, timeoutRef>>
       ELSE LET cleared == clearPendingTimeout(sliderTimers, timeoutRef)
            IN  /\ valueRef' = Ref(value)
                /\ IF isDragging
                   THEN LET id == NewTimerId(cleared.timers, cleared.ref)
                        IN  /\ sliderTimers' =
                                   cleared.timers
                                       \cup {[id |-> id, remaining |-> debounceTime]}
                            /\ timeoutRef' = Ref(id)
                            /\ onChange' = <<>>
                   ELSE /\ sliderTimers' = cleared.timers
                        /\ timeoutRef' = cleared.ref
                        /\ onChange' = <<value>>
    /\ UNCHANGED <<disabled, isDragging>>

\* the callback of the timer handleChange set (lines 32-36); the id stays in
\* timeoutRef
SliderTimerFires ==
    \E t \in sliderTimers :
        /\ t.remaining = 0
        /\ sliderTimers' = sliderTimers \ {t}
        /\ onChange' = IF ~valueRef.isNull THEN <<valueRef.val>> ELSE <<>>
        /\ UNCHANGED <<disabled, isDragging, timeoutRef, valueRef>>

\* handleDragStart (lines 43-47)
handleDragStart ==
    /\ isDragging' = IF ~disabled THEN TRUE ELSE isDragging
    /\ onChange' = <<>>
    /\ UNCHANGED <<disabled, timeoutRef, valueRef, sliderTimers>>

\* a handleDragEnd that would deliver the value and leave the timer pending
handleDragEndKeepsTimer ==
    /\ isDragging' = FALSE
    /\ onChange' = IF ~valueRef.isNull THEN <<valueRef.val>> ELSE <<>>
    /\ UNCHANGED <<disabled, timeoutRef, valueRef, sliderTimers>>

\* handleDragEnd (lines 49-58)
handleDragEnd ==
    /\ IF disabled
       THEN /\ onChange' = <<>>
            /\ UNCHANGED <<isDragging, timeoutRef, sliderTimers>>
       ELSE /\ isDragging' = FALSE
            /\ IF ~valueRef.isNull
               THEN LET cleared == clearPendingTimeout(sliderTimers, timeoutRef)
                    IN  /\ sliderTimers' = cleared.timers
                        /\ timeoutRef' = cleared.ref
                        /\ onChange' = <<valueRef.val>>
               ELSE /\ onChange' = <<>>
                    /\ UNCHANGED <<timeoutRef, sliderTimers>>
    /\ UNCHANGED <<disabled, valueRef>>

\* a render with another value of the disabled option
setDisabled(value) ==
    /\ value # disabled
    /\ disabled' = value
    /\ onChange' = <<>>
    /\ UNCHANGED <<isDragging, timeoutRef, valueRef, sliderTimers>>

\* TickMs of time pass
SliderTick ==
    /\ \/ sinceChange < debounceTime
       \/ \E t \in sliderTimers : t.remaining > 0
    /\ sliderTimers' =
           {[t EXCEPT !.remaining = IF @ > TickMs THEN @ - TickMs ELSE 0] :
               t \in sliderTimers}
    /\ sinceChange' =
           IF sinceChange + TickMs < debounceTime THEN sinceChange + TickMs
           ELSE debounceTime
    /\ onChange' = <<>>
    /\ UNCHANGED <<disabled, isDragging, timeoutRef, valueRef>>

----------------------------------------------------------------------------
(* DragDropUpload (components/DragDropUpload.tsx). A file is its MIME type,
   a string written as the sequence of its characters, and its size in
   bytes. *)

DEFAULT_MAX_SIZE == 5 * 1024 * 1024

\* the maxSize prop: left out (the default) or 1 KB
MaxSizes == {DEFAULT_MAX_SIZE, 1024}

ImagePrefix == <<"i", "m", "a", "g", "e", "/">>

\* String.prototype.startsWith
startsWith(string, prefix) ==
    /\ Len(string) >= Len(prefix)
    /\ SubSeq(string, 1, Len(prefix)) = prefix

FileTypes ==
    {ImagePrefix \o <<"p", "n", "g">>,
     ImagePrefix,
     <<"i", "m", "a", "g", "e">>,
     <<"t", "e", "x", "t", "/", "i", "m", "a", "g", "e", "/">>,
     <<>>}

FileSizes == {0, 1024, 1025, DEFAULT_MAX_SIZE, DEFAULT_MAX_SIZE + 1}

Files == [type : FileTypes, size : FileSizes]

\* e.dataTransfer.files / e.target.files: no file, one, or two
FileLists ==
    {<<>>} \cup {<<f>> : f \in Files}
           \cup {<<f, g>> : f \in {h \in Files : h.size # 0},
                            g \in {h \in Files : h.size = DEFAULT_MAX_SIZE}}

\* a validateFile that would accept every file
validateFileAny(file, maxSize) == [valid |-> TRUE, error |-> ""]

\* validateFile (lines 22-38): what it returns and the error it leaves
validateFile(file, maxSize) ==
    IF ~startsWith(file.type, ImagePrefix)
    THEN [valid |-> FALSE, error |-> "Please upload an image file"]
    ELSE IF file.size > maxSize
    THEN [valid |-> FALSE, error |-> "File size must be less than NMB"]
    ELSE [valid |-> TRUE, error |-> ""]

\* the part handleDrop and handleFileSelect share: the first file, validated
UploadFirst(files, maxSize) ==
    IF Len(files) > 0
    THEN LET file == files[1]
             checked == validateFile(file, maxSize)
         IN  /\ uploadError' = checked.error
             /\ onFileUpload' = IF checked.valid THEN <<file>> ELSE <<>>
    ELSE /\ onFileUpload' = <<>>
         /\ UNCHANGED uploadError

\* handleDragIn (lines 45-52)
handleDragIn(hasItems) ==
    /\ dragCounter < MaxDragDepth
    /\ dragCounter' = dragCounter + 1
    /\ isDraggingOver' = IF hasItems THEN TRUE ELSE isDraggingOver
    /\ onFileUpload' = <<>>
    /\ UNCHANGED uploadError

\* handleDragOut (lines 54-61); a dragleave follows a dragenter
handleDragOut ==
    /\ dragCounter > 0
    /\ dragCounter' = dragCounter - 1
    /\ isDraggingOver' = IF dragCounter' = 0 THEN FALSE ELSE isDraggingOver
    /\ onFileUpload' = <<>>
    /\ UNCHANGED uploadError

\* handleDrop (lines 63-76)
handleDrop(files, maxSize) ==
    /\ isDraggingOver' = FALSE
    /\ dragCounter' = 0
    /\ UploadFirst(files, maxSize)

\* handleFileSelect (lines 78-86)
handleFileSelect(files, maxSize) ==
    /\ UploadFirst(files, maxSize)
    /\ UNCHANGED <<isDraggingOver, dragCounter>>

----------------------------------------------------------------------------
(* Image import (part_006): handleDrop, handleFileSelect, processImageFile.
   An import first reads the file with a FileReader (a load event carries the
   data URL, a non-empty string) and then posts it to the server. *)

ImageFiles ==
    [type : {ImagePrefix \o <<"p", "n", "g">>, <<"t", "e", "x", "t", "/">>},
     name : {"a.png", "b.png"}]

\* the wavetable the server answers an image with
ImageWavetable(w) ==
    [isNull |-> FALSE, waveform |-> w, frames |-> [i \in 1..MaxFrames |-> w],
     num_frames |-> MaxFrames, frame_size |-> Len(w)]

\* what the server (or the network) answers to the image request: net, the
\* response's ok, the error field of its body, and the body
ImageResponses ==
    {[net |-> "error", ok |-> FALSE, error |-> "", data |-> NoData],
     [net |-> "ok", ok |-> FALSE, error |-> "", data |-> NoData],
     [net |-> "ok", ok |-> TRUE, error |-> "No image data", data |-> NoData]}
    \cup {[net |-> "ok", ok |-> TRUE, error |-> "", data |-> ImageWavetable(w)] :
              w \in {<<One>>, <<-One, One>>}}

\* the message of the Error the request part of reader.onload throws (lines
\* 457-477), "" when it throws none
ImageError(resp) ==
    IF resp.net = "error" THEN "Failed to fetch"
    ELSE IF ~resp.ok THEN "Server error"
    ELSE resp.error

RemoveAt(seq, i) == SubSeq(seq, 1, i - 1) \o SubSeq(seq, i + 1, Len(seq))

\* processImageFile (lines 443-516) up to reader.readAsDataURL
processImageFile(file) ==
    /\ loading' = TRUE
    /\ error' = ""
    /\ selectedFileName' = file.name
    /\ imports' = Append(imports, [pc |-> "reading"])
    /\ UNCHANGED <<waveformData, frames>>

\* handleDrop (lines 423-434)
handleImageDrop(files) ==
    /\ Len(imports) < MaxImports
    /\ IF files = <<>> \/ ~startsWith(files[1].type, ImagePrefix)
       THEN /\ error' = "Please drop an image file"
            /\ UNCHANGED <<loading, selectedFileName, imports, waveformData,
                           frames>>
       ELSE processImageFile(files[1])

\* handleFileSelect (lines 436-441)
handleImageSelect(files) ==
    /\ Len(imports) < MaxImports
    /\ IF files # <<>>
       THEN processImageFile(files[1])
       ELSE UNCHANGED <<loading, error, selectedFileName, imports, waveformData,
                        frames>>

\* the FileReader of import i is done: reader.onload up to its fetch (lines
\* 452-468), or reader.onerror (lines 504-507)
ImportReadSettles(i, outcome) ==
    /\ i \in 1..Len(imports)
    /\ imports[i].pc = "reading"
    /\ IF outcome = "load"
       THEN /\ imports' = [imports EXCEPT ![i].pc = "fetching"]
            /\ UNCHANGED <<loading, error>>
       ELSE /\ error' = "Failed to read file"
            /\ loading' = FALSE
            /\ imports' = RemoveAt(imports, i)
    /\ UNCHANGED <<selectedFileName, waveformData, frames>>

\* reader.onload of import i from the response on (lines 470-501)
ImportFetchSettles(i, resp) ==
    /\ i \in 1..Len(imports)
    /\ imports[i].pc = "fetching"
    /\ IF ImageError(resp) # ""
       THEN /\ error' = ImageError(resp)
            /\ loading' = FALSE
            /\ UNCHANGED <<waveformData, frames>>
       ELSE /\ waveformData' = resp.data
            /\ frames' = resp.data.frames
            /\ UNCHANGED <<loading, error>>
    /\ imports' = RemoveAt(imports, i)
    /\ UNCHANGED selectedFileName

----------------------------------------------------------------------------
(* History: what the properties need to remember, kept beside the handlers *)

\* the stage inputs of the cache entries, after a step that stored `input`
\* under `key` (or stored nothing: key not in the cache afterwards)
CacheInputAfter(key, input) ==
    [k \in DOMAIN computeCache' |->
        IF k = key \/ k \notin DOMAIN cacheInput THEN input ELSE cacheInput[k]]

ParamFound(effectId, paramId) ==
    LET ei == FindIndex(effects, effectId)
    IN  ei # 0 /\ FindIndex(effects[ei].parameters, paramId) # 0

ObserveUpdate(effectId, paramId) ==
    /\ lastOp' = [op |-> "updateEffectParameter", effectId |-> effectId,
                  found |-> ParamFound(effectId, paramId)]
    /\ cacheInput' = CacheInputAfter(StringKey(effectId), <<>>)

ObserveToggle(effectId) ==
    /\ lastOp' = OtherOp
    /\ cacheInput' = CacheInputAfter(StringKey(effectId), <<>>)

ObserveApply ==
    /\ lastOp' = OtherOp
    /\ UNCHANGED cacheInput

ObserveFetch ==
    /\ lastOp' = OtherOp
    /\ cacheInput' = CacheInputAfter(call.cacheKey, call.processedData)

\* a parameter or bypass change ends the quiet period; a new call starts one
NoteChange(found) ==
    /\ quiet' = (quiet /\ ~found)
    /\ UNCHANGED prev

NoteApply ==
    /\ prev' = [input |-> call.input, pc |-> call.pc, result |-> call.result,
                quiet |-> quiet]
    /\ quiet' = TRUE

----------------------------------------------------------------------------
(* The specifications *)

NoChaosCall ==
    [called |-> FALSE, invalid |-> FALSE, sent |-> FALSE, error |-> "",
     kept |-> TRUE, processing |-> FALSE]

\* a value that is not a number: null, a string, NaN
NotANumber(value) == value.kind # "num"

\* lastChaos: what a call of applyChaosFolder with `params` did, and whether a
\* parameter or a sample of the frames to fold was not a number
ObserveChaos(isCalled, params) ==
    lastChaos' =
        IF isCalled
        THEN [called |-> TRUE,
              invalid |->
                  \/ \E k \in ChaosKeys : NotANumber(params[k])
                  \/ \E i \in 1..Len(originalWaveformRef.frames) :
                        \E j \in 1..Len(originalWaveformRef.frames[i]) :
                            NotANumber(originalWaveformRef.frames[i][j]),
              sent |-> Len(chaosRequests') > Len(chaosRequests),
              error |-> error',
              kept |-> waveformData' = waveformData,
              processing |-> isProcessing']
        ELSE lastChaos

\* lastRequest: the request sent in this step, and whether its frames are the
\* frames of the last generation at that moment (bounded sample by sample, as
\* applyChaosFolder bounds what it sends, for a chaos request)
ObserveRequests ==
    lastRequest' =
        IF Len(chaosRequests') > Len(chaosRequests)
        THEN [kind |-> "chaos",
              faithful |-> chaosRequests'[Len(chaosRequests')].frames
                               = ChaosFrames(generated)]
        ELSE IF Len(enhanceRequests') > Len(enhanceRequests)
        THEN [kind |-> "enhance",
              faithful |-> enhanceRequests'[Len(enhanceRequests')].frames
                               = generated]
        ELSE lastRequest

\* generated: the frames the generation that settles in this step returned
ObserveGenerated(resp) ==
    generated' =
        IF fetchWithCredentials(resp) = "" THEN resp.data.frames ELSE generated

\* lastGenerate: whether the generation that settles in this step failed, and
\* what the failure left
ObserveGenerate(resp) ==
    lastGenerate' =
        IF fetchWithCredentials(resp) # ""
        THEN [failed |-> TRUE, error |-> error',
              kept |-> /\ waveformData' = waveformData
                       /\ originalWaveformRef' = originalWaveformRef]
        ELSE [lastGenerate EXCEPT !.failed = FALSE]

chaosHist == <<generated, lastRequest, lastChaos, lastGenerate>>

NoSeries == [active |-> FALSE, len |-> 0, last |-> 0, timerCalls |-> 0,
             timerValue |-> 0]

\* the history of the slider hook after the step `op` ("change" with the
\* value passed, "dragStart", "dragEnd", "timer", "render").
\* lastPassed: the value of the last handleChange call the hook did not
\* ignore as disabled. lastSlider: the step, the state it started in, the
\* onChange calls it made, whether it left a timer pending. series: the
\* handleChange calls made while dragging, each less than debounceTime after
\* the one before, the value of the last of them, and the onChange calls
\* timers have made since the series began
ObserveSlider(op, value) ==
    LET accepted == op = "change" /\ ~disabled
    IN  /\ lastPassed' = IF accepted THEN Ref(value) ELSE lastPassed
        /\ sinceChange' = IF accepted THEN 0 ELSE sinceChange
        /\ lastSlider' = [op |-> op, enabled |-> ~disabled,
                          dragging |-> isDragging, passed |-> lastPassed,
                          calls |-> onChange',
                          hadTimer |-> sliderTimers # {},
                          noTimer |-> sliderTimers' = {}]
        /\ series' =
               IF accepted /\ isDragging
               THEN IF series.active /\ sinceChange < debounceTime
                    THEN [series EXCEPT !.len = 2, !.last = value]
                    ELSE [NoSeries EXCEPT !.active = TRUE, !.len = 1,
                                          !.last = value]
               ELSE IF accepted \/ (op = "dragEnd" /\ ~disabled)
               THEN NoSeries
               ELSE IF op = "timer" /\ series.active /\ onChange' # <<>>
               THEN [series EXCEPT
                        !.timerCalls = IF @ < 2 THEN @ + 1 ELSE @,
                        !.timerValue = onChange'[1]]
               ELSE series

sliderHist == <<lastPassed, lastSlider, series>>

\* enhanceOrigin after a step of the formant slider that may have issued an
\* enhance request: "dragEnd" for onMouseUp and onMouseLeave, "timer" for the
\* 50 ms timer of onChange
NoteEnhanceIssued(origin) ==
    /\ enhanceOrigin' =
           IF Len(enhanceRequests') > Len(enhanceRequests) THEN origin
           ELSE enhanceOrigin
    /\ UNCHANGED lastEnhance

\* lastEnhance: what issued the request whose response arrives in this step,
\* whether the response was OK, and whether its frames are now
\* waveformData.frames and its first frame waveformData.waveform
NoteEnhanceSettled(resp) ==
    /\ lastEnhance' =
           [origin |-> enhanceOrigin, ok |-> resp.ok,
            replaced |-> /\ resp.ok
                         /\ waveformData'.frames = resp.frames
                         /\ waveformData'.waveform = resp.frames[1]]
    /\ enhanceOrigin' = "none"

NoBurst == [len |-> 0, events |-> 0, final |-> TRUE]

\* bursts after an updateEffectParameter call that found its parameter: the
\* call continues the burst of its effect when the timer of the call before
\* has time left (less than DebounceMs have passed), and begins one otherwise
ObserveBurst(effectId, paramId) ==
    bursts' =
        IF ParamFound(effectId, paramId)
        THEN [bursts EXCEPT ![effectId] =
                 IF @.len > 0
                    /\ \E t \in TimersOf(pendingTimers, effectId) :
                          t.inMap /\ t.remaining > 0
                 THEN [@ EXCEPT !.len = 2]
                 ELSE [NoBurst EXCEPT !.len = 1]]
        ELSE bursts

\* bursts after a step that dispatched events: how many 'effect-parameters-
\* changed' events the burst of the effect has produced, and whether the
\* event carried the effect with the values the registry holds
ObserveDispatch ==
    bursts' =
        [e \in DOMAIN bursts |->
            IF \E i \in 1..Len(dispatched') :
                  /\ dispatched'[i].type = "effect-parameters-changed"
                  /\ dispatched'[i].effectId = e
            THEN [bursts[e] EXCEPT
                     !.events = IF @ < 2 THEN @ + 1 ELSE @,
                     !.final = \A i \in 1..Len(dispatched') :
                                  dispatched'[i].effectId = e
                                      => dispatched'[i].effect
                                             = effects'[FindIndex(effects', e)]]
            ELSE bursts[e]]

\* lastChange: how the last handleEffectChange stands, and the shape
\* waveformData.frames had when it was called
\* and, of a failed one: whether the message applyEffects rejected with was
\* recorded in error, whether waveformData kept its value, whether
\* isEffectProcessing was left true; afterFailure: the handleEffectChange
\* before this one had failed
NoteEffectChange(before) ==
    LET outcome == IF waveformData.isNull /\ ~isEffectProcessing THEN "skipped"
                   ELSE IF call'.pc = "returned" THEN "succeeded"
                   ELSE IF call'.pc = "rejected" THEN "failed"
                   ELSE "running"
        failed == outcome = "failed"
    IN  lastChange' =
            [outcome |-> outcome,
             before |-> before,
             recorded |-> failed /\ error' = call'.error /\ error' # "",
             kept |-> failed => waveformData' = waveformData,
             processing |-> failed /\ isEffectProcessing',
             afterFailure |-> IF lastChange.outcome = "running"
                              THEN lastChange.afterFailure
                              ELSE lastChange.outcome = "failed"]

\* a generation that replaces waveformData ends what lastChange tells of it
NoteGenerated ==
    lastChange' =
        IF waveformData' # waveformData /\ lastChange.outcome # "running"
        THEN [lastChange EXCEPT !.outcome = "none"]
        ELSE lastChange

outsideManager == <<editorVars, previewVars, componentVars>>

Init ==
    /\ effects = InitialEffects
    /\ bypassedEffects = {}
    /\ computeCache = EmptyMap
    /\ cacheInput = EmptyMap
    /\ updateTimers = {}
    /\ call = IdleCall
    /\ requests = <<>>
    /\ prev = [input |-> NotAnArray, pc |-> "idle", result |-> <<>>,
               quiet |-> TRUE]
    /\ quiet = TRUE
    /\ lastOp = OtherOp
    /\ nCalls = 0
    /\ nUpdates = 0
    /\ waveformData = NoData
    /\ frames = <<>>
    /\ error = ""
    /\ isEffectProcessing = FALSE
    /\ editorPc = Ready
    /\ lastChange = [outcome |-> "none", before |-> <<>>, recorded |-> FALSE,
                     kept |-> TRUE, processing |-> FALSE, afterFailure |-> FALSE]
    /\ originalWaveformRef = NoData
    /\ harmonicStrength = 0
    /\ isDraggingFormant = FALSE
    /\ harmonicTimeoutRef = NoTimer
    /\ lastEnhanceTime = 0
    /\ enhanceRequests = <<>>
    /\ previewed = FALSE
    /\ equation = "sin(t)"
    /\ chaosParams = InitialChaosParams
    /\ debouncedParams = InitialChaosParams
    /\ isChaosEnabled = FALSE
    /\ isProcessing = FALSE
    /\ chaosTimer = FALSE
    /\ chaosRequests = <<>>
    /\ generateRequests = <<>>
    /\ generated = <<>>
    /\ lastRequest = [kind |-> "none", faithful |-> TRUE]
    /\ lastChaos = NoChaosCall
    /\ lastGenerate = [failed |-> FALSE, error |-> "", kept |-> TRUE]
    /\ disabled = FALSE
    /\ isDragging = FALSE
    /\ timeoutRef = NullRef
    /\ valueRef = NullRef
    /\ sliderTimers = {}
    /\ onChange = <<>>
    /\ sinceChange = debounceTime
    /\ lastPassed = NullRef
    /\ lastSlider = [op |-> "none", enabled |-> TRUE, dragging |-> FALSE,
                     passed |-> NullRef, calls |-> <<>>, hadTimer |-> FALSE,
                     noTimer |-> TRUE]
    /\ series = NoSeries
    /\ isDraggingOver = FALSE
    /\ uploadError = ""
    /\ dragCounter = 0
    /\ onFileUpload = <<>>
    /\ lastDrop = [files |-> <<>>, maxSize |-> DEFAULT_MAX_SIZE]
    /\ pendingTimers = {}
    /\ enhanceOrigin = "none"
    /\ lastEnhance = [origin |-> "none", ok |-> FALSE, replaced |-> FALSE]
    /\ loading = FALSE
    /\ selectedFileName = ""
    /\ imports = <<>>
    /\ tolerantCall = IdleTolerantCall
    /\ tolerantRequests = <<>>
    /\ dispatched = <<>>
    /\ bursts = [i \in {EffectIds[j] : j \in 1..Len(EffectIds)} |-> NoBurst]

\* the EffectManager and its cache over successive applyEffects calls
Next ==
    \/ \E u \in PipelineUpdates :
          /\ updateEffectParameter(u[1], u[2], u[3])
          /\ ObserveUpdate(u[1], u[2])
          /\ UNCHANGED <<repeatHist, nUpdates, outsideManager>>
    \/ \E e \in ToggleInputs :
          /\ toggleBypass(e) /\ ObserveToggle(e)
          /\ UNCHANGED <<repeatHist, outsideManager>>
    \/ \E w \in ApplyInputs :
          /\ applyEffects(w) /\ ObserveApply
          /\ UNCHANGED <<repeatHist, outsideManager>>
    \/ \E r \in Responses :
          /\ FetchSettles(r) /\ ObserveFetch
          /\ UNCHANGED <<repeatHist, outsideManager>>

Spec == Init /\ [][Next]_vars

\* the same, remembering the previous call
NextRepeat ==
    \/ \E u \in PipelineUpdates :
          /\ updateEffectParameter(u[1], u[2], u[3])
          /\ NoteChange(ParamFound(u[1], u[2]))
          /\ UNCHANGED <<cacheHist, nUpdates, outsideManager>>
    \/ \E e \in ToggleInputs :
          /\ toggleBypass(e)
          /\ NoteChange(FindIndex(effects, e) # 0)
          /\ UNCHANGED <<cacheHist, outsideManager>>
    \/ \E w \in ApplyInputs :
          /\ applyEffects(w) /\ NoteApply
          /\ UNCHANGED <<cacheHist, outsideManager>>
    \/ \E r \in Responses :
          /\ FetchSettles(r)
          /\ UNCHANGED <<cacheHist, repeatHist, outsideManager>>

SpecRepeat == Init /\ [][NextRepeat]_vars

\* the pipeline of applyEffects, stage by stage
NextPipeline ==
    \/ \E u \in PipelineUpdates :
          /\ updateEffectParameter(u[1], u[2], u[3])
          /\ UNCHANGED <<cacheHist, repeatHist, nUpdates, outsideManager>>
    \/ \E e \in ToggleInputs :
          toggleBypass(e) /\ UNCHANGED <<cacheHist, repeatHist, outsideManager>>
    \/ \E w \in ApplyInputs :
          applyEffects(w) /\ UNCHANGED <<cacheHist, repeatHist, outsideManager>>
    \/ \E r \in Responses :
          FetchSettles(r) /\ UNCHANGED <<cacheHist, repeatHist, outsideManager>>

SpecPipeline == Init /\ [][NextPipeline]_vars

\* the EffectManager's parameters under every update
NextParams ==
    \/ \E u \in AllUpdates :
          /\ nUpdates < MaxUpdates
          /\ nUpdates' = nUpdates + 1
          /\ updateEffectParameter(u[1], u[2], u[3])
          /\ UNCHANGED <<cacheHist, repeatHist, outsideManager>>
    \/ \E e \in ToggleInputs :
          toggleBypass(e) /\ UNCHANGED <<cacheHist, repeatHist, outsideManager>>
    \/ \E e \in ToggleInputs :
          /\ ParameterTimerFires(e)
          /\ UNCHANGED <<cacheHist, repeatHist, outsideManager>>

SpecParams == Init /\ [][NextParams]_vars

\* the editor driving the EffectManager through EffectControls
RegisteredIds == {EffectIds[i] : i \in 1..Len(EffectIds)}

NextEditor ==
    \/ generateWaveform /\ UNCHANGED <<emVars, lastChange, previewVars, componentVars>>
    \/ \E r \in GenerateResponses :
          /\ GenerateSettles(r)
          /\ NoteGenerated
          /\ UNCHANGED <<emVars, previewVars, componentVars>>
    \/ \E u \in PipelineUpdates :
          /\ handleParameterChange(u[1], u[2], u[3])
          /\ UNCHANGED <<cacheHist, repeatHist, nUpdates, lastChange, previewVars, componentVars>>
    \/ \E e \in RegisteredIds :
          /\ handleBypassToggle(e)
          /\ UNCHANGED <<cacheHist, repeatHist, lastChange, previewVars, componentVars>>
    \/ /\ handleEffectChange
       /\ NoteEffectChange(Shape(waveformData.frames))
       /\ UNCHANGED <<cacheHist, repeatHist, previewVars, componentVars>>
    \/ \E r \in Responses :
          /\ EffectFetchSettles(r)
          /\ NoteEffectChange(lastChange.before)
          /\ UNCHANGED <<cacheHist, repeatHist, previewVars, componentVars>>

SpecEditor == Init /\ [][NextEditor]_vars

\* the editor version with the formant slider
editorRest == <<frames, isEffectProcessing, lastChange>>

NextPreview ==
    \/ FormantGenerate /\ UNCHANGED <<emVars, editorRest, componentVars>>
    \/ \E r \in FormantResponses :
          FormantGenerateSettles(r) /\ UNCHANGED <<emVars, editorRest, componentVars>>
    \/ FormantMouseDown /\ UNCHANGED <<emVars, editorRest, componentVars>>
    \/ FormantMouseUp /\ UNCHANGED <<emVars, editorRest, componentVars>>
    \/ FormantMouseLeave /\ UNCHANGED <<emVars, editorRest, componentVars>>
    \/ \E b \in Strengths : FormantChange(b) /\ UNCHANGED <<emVars, editorRest, componentVars>>
    \/ FormantTimerFires /\ UNCHANGED <<emVars, editorRest, componentVars>>
    \/ \E r \in EnhanceResponses :
          EnhanceSettles(r) /\ UNCHANGED <<emVars, editorRest, componentVars>>

SpecPreview == Init /\ [][NextPreview]_vars

\* WavetableEditor.tsx: generation and the chaos wavefolder
tsxRest == <<emVars, frames, isEffectProcessing, editorPc, lastChange,
             harmonicTimeoutRef, previewed, sliderVars, debounceVars,
             uploadVars, laterVars>>

NextChaos ==
    \/ \E kind \in {"custom", "basic"} :
          generateWaveformTsx(kind) /\ UNCHANGED <<chaosHist, tsxRest>>
    \/ \E r \in TsxGenerateResponses :
          /\ GenerateSettlesTsx(r)
          /\ UNCHANGED <<chaosHist, tsxRest>>
    \/ \E checked \in BOOLEAN :
          /\ setIsChaosEnabled(checked)
          /\ ObserveChaos(checked /\ ~isChaosEnabled /\ ~originalWaveformRef.isNull,
                          debouncedParams)
          /\ UNCHANGED <<generated, lastRequest, lastGenerate, tsxRest>>
    \/ \E c \in ChaosChanges :
          setChaosParams(c[1], c[2]) /\ UNCHANGED <<chaosHist, tsxRest>>
    \/ /\ ChaosTimerFires
       /\ ObserveChaos(isChaosEnabled /\ ~originalWaveformRef.isNull, chaosParams)
       /\ UNCHANGED <<generated, lastRequest, lastGenerate, tsxRest>>
    \/ \E r \in TsxChaosResponses :
          ChaosSettles(r) /\ UNCHANGED <<chaosHist, tsxRest>>

SpecChaos == Init /\ [][NextChaos]_vars

\* WavetableEditor.tsx: generation and what a failed one leaves
NextGenerate ==
    \/ \E text \in Equations :
          /\ text # equation
          /\ setEquation(text)
          /\ UNCHANGED <<chaosHist, tsxRest>>
    \/ \E kind \in {"custom", "basic"} :
          generateWaveformTsx(kind) /\ UNCHANGED <<chaosHist, tsxRest>>
    \/ \E r \in TsxGenerateResponses :
          /\ GenerateSettlesTsx(r)
          /\ ObserveGenerate(r)
          /\ UNCHANGED <<generated, lastRequest, lastChaos, tsxRest>>
    \/ \E b \in {-StrengthUnit, 2} :
          FormantChangeTsx(b) /\ UNCHANGED <<chaosHist, tsxRest>>

SpecGenerate == Init /\ [][NextGenerate]_vars

\* the generations answered in NextOriginal
OriginalResponses ==
    {TsxResponse("ok", TRUE, "", TsxWavetable(w)) :
        w \in {<<Num(One)>>, <<Num(-2 * One)>>}}

\* WavetableEditor.tsx: generation, the stored original, and the
\* enhance-harmonics requests built from it
NextOriginal ==
    \/ \E text \in Equations :
          /\ text # equation
          /\ setEquation(text)
          /\ UNCHANGED <<chaosHist, tsxRest>>
    \/ \E kind \in {"custom", "basic"} :
          generateWaveformTsx(kind) /\ UNCHANGED <<chaosHist, tsxRest>>
    \/ \E r \in OriginalResponses :
          /\ GenerateSettlesTsx(r)
          /\ ObserveGenerated(r)
          /\ UNCHANGED <<lastRequest, lastChaos, lastGenerate, tsxRest>>
    \/ \E b \in {2} :
          FormantChangeTsx(b) /\ UNCHANGED <<chaosHist, tsxRest>>
    \/ /\ FormantDragEndsTsx
       /\ ObserveRequests
       /\ UNCHANGED <<generated, lastChaos, lastGenerate, tsxRest>>
    \/ \E r \in {e \in TsxEnhanceResponses : fetchWithCredentials(e) = ""} :
          EnhanceSettlesTsx(r) /\ UNCHANGED <<chaosHist, tsxRest>>
    \/ FormantMouseDownTsx /\ UNCHANGED <<chaosHist, tsxRest>>

SpecOriginal == Init /\ [][NextOriginal]_vars



\* what the slider hook leaves alone
sliderRest == <<emVars, editorVars, previewVars, chaosVars, debounceVars,
                uploadVars, laterVars>>

\* useSliderInteraction: the slider's events, the timer, renders, time
NextSlider ==
    \/ \E v \in SliderValues :
          /\ Cardinality(sliderTimers) < MaxTimers
          /\ handleChange(v)
          /\ ObserveSlider("change", v)
          /\ UNCHANGED sliderRest
    \/ /\ handleDragStart
       /\ ObserveSlider("dragStart", 0)
       /\ UNCHANGED sliderRest
    \/ /\ handleDragEnd
       /\ ObserveSlider("dragEnd", 0)
       /\ UNCHANGED sliderRest
    \/ /\ SliderTimerFires
       /\ ObserveSlider("timer", 0)
       /\ UNCHANGED sliderRest
    \/ \E d \in BOOLEAN :
          /\ setDisabled(d)
          /\ ObserveSlider("render", 0)
          /\ UNCHANGED sliderRest
    \/ /\ SliderTick
       /\ UNCHANGED <<sliderHist, sliderRest>>

SpecSlider == Init /\ [][NextSlider]_vars

\* the updates drawn for the debounce of updateEffectParameter
DebounceUpdates ==
    {<<"chaosFold", "mix", Num(0)>>, <<"chaosFold", "mix", Num(5000)>>,
     <<"chaosFold", "sigma", Num(750)>>, <<"chaosFold2", "mix", Num(0)>>,
     <<"chaosFold2", "unknown", Num(0)>>, <<"unknown", "mix", Num(0)>>}

\* what the debounce leaves alone
debounceRest == <<cacheHist, repeatHist, nUpdates, editorVars, previewVars,
                  chaosVars, sliderVars, uploadVars, laterVars>>

\* EffectManager: parameter updates, their debounce timers, time
NextDebounce ==
    \/ \E u \in DebounceUpdates :
          /\ Cardinality(pendingTimers) < MaxPending
          /\ UpdateWithTimers(u[1], u[2], u[3])
          /\ ObserveBurst(u[1], u[2])
          /\ UNCHANGED debounceRest
    \/ \E t \in pendingTimers :
          /\ DebounceTimerFires(t)
          /\ ObserveDispatch
          /\ UNCHANGED <<cacheHist, repeatHist, editorVars, previewVars,
                         chaosVars, sliderVars, uploadVars, laterVars>>
    \/ /\ DebounceTimePasses
       /\ UNCHANGED <<bursts, cacheHist, repeatHist, editorVars, previewVars,
                      chaosVars, sliderVars, uploadVars, laterVars>>

SpecDebounce == Init /\ [][NextDebounce]_vars

\* what DragDropUpload leaves alone
uploadRest == <<emVars, editorVars, previewVars, chaosVars, sliderVars,
                debounceVars, laterVars>>

\* DragDropUpload: drag events, drops and selections
NextUpload ==
    \/ \E hasItems \in BOOLEAN :
          handleDragIn(hasItems) /\ UNCHANGED <<lastDrop, uploadRest>>
    \/ handleDragOut /\ UNCHANGED <<lastDrop, uploadRest>>
    \/ \E files \in FileLists, maxSize \in MaxSizes :
          /\ handleDrop(files, maxSize)
          /\ lastDrop' = [files |-> files, maxSize |-> maxSize]
          /\ UNCHANGED uploadRest
    \/ \E files \in FileLists, maxSize \in MaxSizes :
          /\ handleFileSelect(files, maxSize)
          /\ lastDrop' = [files |-> files, maxSize |-> maxSize]
          /\ UNCHANGED uploadRest

SpecUpload == Init /\ [][NextUpload]_vars

\* what the formant slider leaves alone, the history of its enhance requests
\* apart
dragEndRest == <<emVars, editorRest, chaosVars, sliderVars, debounceVars,
                 uploadVars, importVars, tolerantVars>>

\* the generations and the enhance responses drawn in NextDragEnd
DragEndGenerations ==
    {[ok |-> TRUE, data |-> FormantWavetable(<<One, -One \div 4>>)]}

DragEndResponses ==
    {[ok |-> TRUE, frames |-> [i \in 1..numFrames |-> <<One>>]],
     [ok |-> FALSE, frames |-> <<>>]}

\* the formant slider (part_007): drags, their end, and the enhance responses
NextDragEnd ==
    \/ FormantGenerate /\ UNCHANGED <<dragEndHist, dragEndRest>>
    \/ \E r \in DragEndGenerations :
          FormantGenerateSettles(r) /\ UNCHANGED <<dragEndHist, dragEndRest>>
    \/ FormantMouseDown /\ UNCHANGED <<dragEndHist, dragEndRest>>
    \/ /\ FormantMouseUp
       /\ NoteEnhanceIssued("dragEnd")
       /\ UNCHANGED dragEndRest
    \/ /\ FormantMouseLeave
       /\ NoteEnhanceIssued("dragEnd")
       /\ UNCHANGED dragEndRest
    \/ \E b \in {-1, 2} :
          FormantChange(b) /\ UNCHANGED <<dragEndHist, dragEndRest>>
    \/ /\ FormantTimerFires
       /\ NoteEnhanceIssued("timer")
       /\ UNCHANGED dragEndRest
    \/ \E r \in DragEndResponses :
          /\ EnhanceSettles(r)
          /\ NoteEnhanceSettled(r)
          /\ UNCHANGED dragEndRest

SpecDragEnd == Init /\ [][NextDragEnd]_vars

\* what the image import leaves alone
importRest == <<emVars, isEffectProcessing, editorPc, lastChange, previewVars,
                chaosVars, sliderVars, debounceVars, uploadVars, dragEndHist,
                tolerantVars>>

\* the image import: drops, selections, file reads and server responses
NextImport ==
    \/ \E files \in {<<>>} \cup {<<f>> : f \in ImageFiles} :
          handleImageDrop(files) /\ UNCHANGED importRest
    \/ \E files \in {<<>>} \cup {<<f>> : f \in ImageFiles} :
          handleImageSelect(files) /\ UNCHANGED importRest
    \/ \E i \in 1..Len(imports), outcome \in {"load", "error"} :
          ImportReadSettles(i, outcome) /\ UNCHANGED importRest
    \/ \E i \in 1..Len(imports), r \in ImageResponses :
          ImportFetchSettles(i, r) /\ UNCHANGED importRest

SpecImport == Init /\ [][NextImport]_vars

\* what the error-tolerant applyEffects leaves alone
tolerantRest == <<cacheInput, lastOp, prev, quiet, editorVars, previewVars,
                  chaosVars, sliderVars, debounceVars, uploadVars, dragEndHist,
                  importVars>>

\* EffectManager, the variant of applyEffects that skips failed stages
NextTolerant ==
    \/ \E w \in ApplyInputs :
          /\ applyEffectsTolerant(w)
          /\ UNCHANGED <<effects, bypassedEffects, updateTimers, call, requests,
                         nCalls, nUpdates, tolerantRest>>
    \/ \E r \in TolerantResponses :
          /\ TolerantFetchSettles(r)
          /\ UNCHANGED <<effects, bypassedEffects, updateTimers, call, requests,
                         nCalls, nUpdates, tolerantRest>>
    \/ \E e \in RegisteredIds :
          /\ TolerantCallOver
          /\ toggleBypass(e)
          /\ UNCHANGED <<tolerantVars, tolerantRest>>

SpecTolerant == Init /\ [][NextTolerant]_vars

----------------------------------------------------------------------------
(* The claims *)

\* the cache entries stored for an effect
EntriesOf(effectId) == {k \in DOMAIN computeCache : k.id = effectId}

\* C1 (as claimed; the code violates it): a stage is served from the cache
\* only when the entry was stored for the same effect id, the same serialized
\* parameter values and the same stage input as the stage now has.
C1_HitOnlyForSameInput ==
    \A i \in 1..Len(call.trace) :
        LET v == call.trace[i]
        IN  v.kind = "cached" =>
                /\ v.key \in DOMAIN cacheInput
                /\ v.key.id = effects[v.idx].id
                /\ JSONstringify(computeCache[v.key].params) = v.key.json
                /\ cacheInput[v.key] = v.in

\* C2 (as claimed; the code violates it): right after updateEffectParameter
\* on an existing parameter, the cache holds no entry stored for that effect.
C2_UpdateClearsEffectEntries ==
    (lastOp.op = "updateEffectParameter" /\ lastOp.found)
        => EntriesOf(lastOp.effectId) = {}

\* C3 (as claimed; the code violates it): a call that follows a returned call
\* with the same input, with no parameter or bypass change since that call
\* started, returns the same waveform and sends no request.
C3_RepeatedCallServedFromCache ==
    (/\ call.pc = "returned"
     /\ prev.pc = "returned"
     /\ prev.input = call.input
     /\ prev.quiet
     /\ quiet)
        => (call.result = prev.result /\ requests = <<>>)

\* the stages of the current call that were sent to the backend and answered
FetchedVisits == {i \in 1..Len(call.trace) : call.trace[i].kind = "fetched"}

\* the data the loop holds after the visits recorded so far
DataAfterTrace ==
    IF call.trace = <<>> THEN call.input.items
    ELSE call.trace[Len(call.trace)].out

StageHasFailed == call.lastResp.net # "none" /\ StageError(call.lastResp) # ""

\* C4: once a stage's response is a failure (fetch rejected, aborted, non-OK,
\* error field, waveform not an array) the call is rejected with the error of
\* that stage, its last request is the failed stage's, and it returns no
\* waveform.
C4_StageFailureRejectsCall ==
    StageHasFailed =>
        /\ call.pc = "rejected"
        /\ call.error = StageError(call.lastResp)
        /\ call.result = <<>>
        /\ requests # <<>>
        /\ requests[Len(requests)].effectId = effects[call.idx].id
        /\ \A i \in 1..Len(call.trace) : call.trace[i].idx < call.idx

\* C4 witness: the second stage failed after the first stage had produced a
\* waveform different from the input
C4_Witness ==
    /\ StageHasFailed
    /\ call.pc = "rejected"
    /\ Len(requests) = 2
    /\ call.trace # <<>>
    /\ call.trace[1].out # call.input.items

\* C5: the loop visits the registry in order, one effect at a time; each
\* visit starts from the data the previous visit left (the input's items for
\* the first); a bypassed effect leaves the data as they are and sends
\* nothing; the requests are exactly those of the fetched stages, in order,
\* plus the stage being waited for (or the one that failed), each carrying
\* the data the loop held; and a returned call returns the data left by the
\* last visit.
C5_StagesRunInRegistryOrder ==
    LET t == call.trace
        n == Len(t)
        open == call.pc = "fetch" \/ (call.pc = "rejected" /\ StageHasFailed)
        \* the visit a request belongs to: the k-th fetched visit
        fetchedUpTo(i) == Cardinality({j \in FetchedVisits : j <= i})
    IN  /\ \A i \in 1..n : t[i].idx = i
        /\ \A i \in 1..n :
              t[i].in = (IF i = 1 THEN call.input.items ELSE t[i - 1].out)
        /\ \A i \in 1..n : t[i].kind = "bypassed" => t[i].out = t[i].in
        /\ Len(requests) = Cardinality(FetchedVisits) + (IF open THEN 1 ELSE 0)
        /\ \A i \in FetchedVisits :
              /\ requests[fetchedUpTo(i)].effectId = effects[i].id
              /\ requests[fetchedUpTo(i)].waveform = t[i].in
        /\ open =>
              /\ call.idx = n + 1
              /\ requests[Len(requests)].effectId = effects[call.idx].id
              /\ requests[Len(requests)].waveform = DataAfterTrace
        /\ call.pc = "returned" =>
              /\ n = Len(effects)
              /\ call.result = DataAfterTrace

\* C5 witness: both stages were sent to the backend, the second with the
\* first's output, which differs from the input, and the call returned
C5_Witness ==
    /\ call.pc = "returned"
    /\ Len(requests) = 2
    /\ requests[2].waveform # call.input.items
    /\ requests[2].waveform = call.trace[1].out
    /\ call.result = call.trace[2].out

\* C6 (as claimed; the code violates it): every stored parameter value lies
\* between the parameter's min and max.
C6_ValuesWithinRange ==
    \A e \in 1..Len(effects) : \A p \in 1..Len(effects[e].parameters) :
        LET param == effects[e].parameters[p]
        IN  NumLeq(param.min, param.value) /\ NumLeq(param.value, param.max)

\* all samples of a waveform lie in [-1.0, 1.0]
WithinUnit(w) == \A j \in 1..Len(w) : -One <= w[j] /\ w[j] <= One

\* C7: after handleEffectChange succeeds, waveformData.frames has the same
\* number of frames, and every frame the same number of samples, as before the
\* call.
C7_EffectKeepsFrameShape ==
    lastChange.outcome = "succeeded"
        => Shape(waveformData.frames) = lastChange.before

\* C8: after every successful handleEffectChange, every sample of
\* waveformData.waveform and of every frame of waveformData.frames lies in
\* [-1.0, 1.0], whatever sample values the backend returned.
C8_SamplesBoundedAfterEffect ==
    lastChange.outcome = "succeeded"
        => /\ WithinUnit(waveformData.waveform)
           /\ \A i \in 1..Len(waveformData.frames) :
                 WithinUnit(waveformData.frames[i])

\* the shaped waveform and frames agree in sign with the originals wherever
\* the original sample is not zero
SameSigns(shaped, original) ==
    \A j \in 1..Len(original) :
        original[j] # 0 => MathSign(shaped[j]) = MathSign(original[j])

\* C9: for every sample y # 0 and every strength in [-1, 1], the output of
\* previewFormantEffect for y has the same sign as y.
C9_PreviewPreservesSign ==
    previewed
        => /\ SameSigns(waveformData.waveform, originalWaveformRef.waveform)
           /\ \A i \in 1..Len(waveformData.frames) :
                 SameSigns(waveformData.frames[i], originalWaveformRef.frames[i])

\* C10: for every input sample (|y| > 1 included) and every strength in
\* [-1, 1], each sample that updateVisualPreview writes into waveformData
\* lies in [-1, 1].
C10_PreviewWithinUnit ==
    previewed
        => /\ \A j \in 1..Len(waveformData.waveform) :
                 MathAbs(waveformData.waveform[j]) <= One
           /\ \A i \in 1..Len(waveformData.frames) :
                 \A j \in 1..Len(waveformData.frames[i]) :
                     MathAbs(waveformData.frames[i][j]) <= One

\* C11: shaping with strength 0 is a no-op: after updateVisualPreview(0),
\* waveformData.waveform and waveformData.frames equal the original waveform
\* and frames, sample for sample.
C11_ZeroStrengthIsNoOp ==
    (previewed /\ harmonicStrength = 0)
        => /\ waveformData.waveform = originalWaveformRef.waveform
           /\ waveformData.frames = originalWaveformRef.frames

\* C11 witness: the slider was moved back to 0 over a waveform with samples
\* outside [-1, 1], inside it, and zero
C11_Witness ==
    /\ previewed
    /\ harmonicStrength = 0
    /\ originalWaveformRef.waveform = <<-3 * One, One \div 2>>
    /\ waveformData.frames = originalWaveformRef.frames

\* C12: if a chaos parameter or a sample of the frames to be folded is not a
\* number, applyChaosFolder sends no chaos_fold request, records an error
\* message, leaves waveformData unchanged and ends with isProcessing false.
C12_InvalidChaosInputIsRejected ==
    (lastChaos.called /\ lastChaos.invalid)
        => /\ ~lastChaos.sent
           /\ lastChaos.error # ""
           /\ lastChaos.kept
           /\ ~lastChaos.processing

\* C13: after any sequence of toggleBypass and updateEffectParameter calls,
\* getEffects() lists every registered effect exactly once, in registry
\* order, with its current parameter values, the ranges it was registered
\* with, and a bypassed flag equal to isEffectBypassed(id).
C13_GetEffectsIsRegistrySnapshot ==
    /\ Len(getEffects) = Len(EffectIds)
    /\ \A i \in 1..Len(getEffects) :
          /\ getEffects[i].id = EffectIds[i]
          /\ getEffects[i].bypassed = (EffectIds[i] \in bypassedEffects)
          /\ Len(getEffects[i].parameters) = Len(ChaosFoldParameters)
          /\ \A p \in 1..Len(ChaosFoldParameters) :
                /\ getEffects[i].parameters[p].id = ChaosFoldParameters[p].id
                /\ getEffects[i].parameters[p].min = ChaosFoldParameters[p].min
                /\ getEffects[i].parameters[p].max = ChaosFoldParameters[p].max
                /\ getEffects[i].parameters[p].value = effects[i].parameters[p].value

\* C13 witness: one effect is bypassed, the other is not, and a parameter of
\* the first effect no longer has its registered value
C13_Witness ==
    /\ bypassedEffects = {EffectIds[2]}
    /\ getEffects[2].bypassed /\ ~getEffects[1].bypassed
    /\ \E p \in 1..Len(ChaosFoldParameters) :
          getEffects[1].parameters[p].value # ChaosFoldParameters[p].value

\* C14: whenever applyEffects rejects inside handleEffectChange, the message
\* it rejected with is recorded in error, waveformData keeps its value, and
\* isEffectProcessing is false again, so that the controls are enabled and
\* the manager is free for the next handleEffectChange.
C14_FailedEffectLeavesEditorUsable ==
    lastChange.outcome = "failed"
        => /\ lastChange.recorded
           /\ lastChange.kept
           /\ ~lastChange.processing
           /\ ~isEffectProcessing
           /\ CallOver

\* C14 witness: after a failed handleEffectChange, a later one has sent a
\* new request and waits for its answer
C14_Witness ==
    /\ lastChange.outcome = "running"
    /\ lastChange.afterFailure
    /\ isEffectProcessing
    /\ requests # <<>>
    /\ error # ""

\* C15: a generation that fails (the request is rejected, or the response is
\* not OK) sets a non-empty error message and leaves waveformData and
\* originalWaveformRef as they were before it
C15_FailedGenerationKeepsWaveform ==
    lastGenerate.failed
        => /\ lastGenerate.error # ""
           /\ lastGenerate.kept

\* a generation has failed while a preview of an earlier one was on display
C15_Witness ==
    /\ lastGenerate.failed
    /\ error # ""
    /\ ~waveformData.isNull
    /\ ~originalWaveformRef.isNull
    /\ waveformData.frames # originalWaveformRef.frames

\* C17: the frames of every effect request built from originalWaveformRef are
\* the frames of the most recent generation as the backend returned them:
\* never an effect's or a preview's output, never an earlier generation
C17_RequestsSendLastGeneration ==
    lastRequest.kind # "none" => lastRequest.faithful

\* C19: when a drag ends while the slider is enabled and handleChange has been
\* passed a value, handleDragEnd calls onChange once, with the most recent of
\* these values, and leaves no timer pending that would deliver it again
C19_DragEndDeliversLastValue ==
    (lastSlider.op = "dragEnd" /\ lastSlider.enabled /\ ~lastSlider.passed.isNull)
        => /\ lastSlider.calls = <<lastSlider.passed.val>>
           /\ lastSlider.noTimer
           /\ sliderTimers = {}

\* a drag has ended while the timer of a handleChange was pending
C19_Witness ==
    /\ lastSlider.op = "dragEnd"
    /\ lastSlider.enabled
    /\ lastSlider.dragging
    /\ lastSlider.hadTimer
    /\ ~lastSlider.passed.isNull
    /\ onChange = <<lastSlider.passed.val>>

\* C20: while dragging handleChange does not call onChange itself; at most one
\* timer is pending; the timers of a series of handleChange calls, each less
\* than debounceTime after the one before, call onChange at most once, with
\* the last value of the series
C20_DraggingChangesAreDebounced ==
    /\ (lastSlider.op = "change" /\ lastSlider.dragging) => lastSlider.calls = <<>>
    /\ Cardinality(sliderTimers) <= 1
    /\ series.timerCalls <= 1
    /\ series.timerCalls = 1 => series.timerValue = series.last

\* the timer has delivered the last value of a series of several calls
C20_Witness ==
    /\ lastSlider.op = "timer"
    /\ lastSlider.dragging
    /\ series.active
    /\ series.len = 2
    /\ series.timerCalls = 1
    /\ onChange = <<series.last>>

Acceptable(file, maxSize) ==
    /\ Len(file.type) >= 6
    /\ \A i \in 1..6 : file.type[i] = ImagePrefix[i]
    /\ ~(file.size > maxSize)

\* C16: onFileUpload is called with at most one file of a drop or selection,
\* the first, and only when its type begins with image/ and its size is at
\* most maxSize; for any other first file an error message is set and
\* onFileUpload is not called
C16_OnlyValidFirstFileIsUploaded ==
    /\ Len(onFileUpload) <= 1
    /\ onFileUpload # <<>>
          => /\ lastDrop.files # <<>>
             /\ onFileUpload[1] = lastDrop.files[1]
             /\ Acceptable(onFileUpload[1], lastDrop.maxSize)
    /\ (lastDrop.files # <<>> /\ ~Acceptable(lastDrop.files[1], lastDrop.maxSize))
          => /\ uploadError # ""
             /\ onFileUpload = <<>>

\* two files were dropped, the first too large for the default maxSize, the
\* second acceptable: nothing was uploaded
C16_Witness ==
    /\ Len(lastDrop.files) = 2
    /\ lastDrop.maxSize = DEFAULT_MAX_SIZE
    /\ lastDrop.files[1].size > DEFAULT_MAX_SIZE
    /\ Acceptable(lastDrop.files[2], lastDrop.maxSize)
    /\ uploadError # ""
    /\ onFileUpload = <<>>

\* C21: a step of the hook taken while the slider is disabled makes no
\* onChange call: not handleChange, not handleDragEnd, not the callback of a
\* timer that was set before the slider became disabled
C21_NoOnChangeWhileDisabled ==
    ~lastSlider.enabled => lastSlider.calls = <<>>

\* C22: when the OK response to the enhance request of a drag end (mouse-up,
\* or mouse-leave while dragging) arrives, the frames it returns replace
\* waveformData.frames, and their first frame waveformData.waveform
C22_DragEndResponseReplacesPreview ==
    (lastEnhance.origin = "dragEnd" /\ lastEnhance.ok) => lastEnhance.replaced

\* C23: once the file read and the server request of every import that
\* processImageFile started have completed, with or without success,
\* loading is false again
C23_LoadingEndsWithTheImport ==
    imports = <<>> => ~loading

\* C24: in the applyEffects whose catch block continues, the call does not
\* reject once a stage has run, and a stage that failed hands on exactly the
\* waveform it was given: to the next stage, or to the caller as the result
C24_FailedStageIsSkipped ==
    /\ tolerantCall.pc = "rejected" => tolerantCall.trace = <<>>
    /\ \A k \in 1..Len(tolerantCall.trace) :
          tolerantCall.trace[k].kind = "failed"
              => tolerantCall.trace[k].out = tolerantCall.trace[k].in

====
